---- MODULE Spec2Model ----
(***************************************************************************)
(* A model of the FDD validator (skills/fdd/scripts/fdd): the FDL          *)
(* scoped-instruction tracker and code marker scanner (validation/fdl.py), *)
(* the generic section check (validation/artifacts/common.py), the         *)
(* overall-design and decision-record validators                           *)
(* (validation/artifacts/adr.py) and the parsers of utils/helpers.py.      *)
(*                                                                         *)
(* Text is modelled by what the code's regular expressions extract from    *)
(* it: a document is a sequence of lines, a line is a record of the        *)
(* matches the code looks for on it.  Identifiers that the code searches   *)
(* for substrings in (scope IDs, directory names) are sequences of their   *)
(* dash-separated segments; all other identifiers are strings.  A Python   *)
(* dict is a sequence of entries in insertion order with unique keys.      *)
(***************************************************************************)
EXTENDS Integers, Sequences, FiniteSets, TLC

VARIABLES
    pc,                \* position of the running function
    tree,              \* the scanned source tree: a sequence of tokens
    root_exists,       \* feature_root and the project root exist
    pos,               \* scan position in tree
    file_scanned,      \* the file being read is one scan_file reads
    inst_tags,         \* extract_inst_tags_from_code's inst_tags
    design_text,       \* the feature document: a sequence of lines
    design_fdl,        \* the result of extract_fdl_instructions
    changes_text,      \* the change log: its ID mentions and its status marker
    feature_name,      \* feature_root.name, as dash-separated segments
    fdl_errors,        \* the error list an FDL validator returned
    untracked_errors,  \* the error list validate_fdl_code_to_design returned
    artifact_text,     \* the artifact under validation: a sequence of lines
    required_sections, \* parse_required_sections' result: the required codes in order
    business_text,     \* BUSINESS.md as load_text returns it
    sibling_text,      \* the second sibling as load_text returns it: ADR.md or DESIGN.md
    skip_fs_checks,    \* the validators' skip_fs_checks argument
    result             \* the result an artifact validator returned

scanVars == <<tree, root_exists, pos, file_scanned, inst_tags>>

fdlVars == <<design_text, design_fdl, changes_text, feature_name, fdl_errors, untracked_errors>>

artifactVars ==
    <<artifact_text, required_sections, business_text, sibling_text, skip_fs_checks, result>>

vars == <<pc, scanVars, fdlVars, artifactVars>>

(***************************************************************************)
(* Bounds of the model.                                                    *)
(***************************************************************************)
MaxScanTokens == 3
MaxDocLines == 4
MaxMentions == 2
MaxCoverageLines == 2
MaxTreeTokens == 2
MaxImplLines == 3
MaxReverseLines == 2
MaxSectionLines == 4
MaxReqBlocks == 2
MaxFlaggedSteps == 2
MaxCommonLines == 2
MaxAdrEntries == 2
MaxIndexLines == 3
MaxBodyLines == 4
MaxBusinessLines == 3

(***************************************************************************)
(* Generic helpers.                                                        *)
(***************************************************************************)
SeqsUpTo(S, n) == UNION {[1..k -> S] : k \in 0..n}

Range(s) == {s[k] : k \in 1..Len(s)}

Min(a, b) == IF a < b THEN a ELSE b

MaxOf(S) == CHOOSE x \in S : \A y \in S : y <= x

MinOf(S) == CHOOSE x \in S : \A y \in S : x <= y

\* the lists of a list, joined
RECURSIVE ConcatAll(_)
ConcatAll(lists) == IF lists = <<>> THEN <<>> ELSE Head(lists) \o ConcatAll(Tail(lists))

\* s[:n]
Take(s, n) == SubSeq(s, 1, Min(n, Len(s)))

\* pat occurs in s as a run of whole segments
SegsIn(pat, s) ==
    \E k \in 1..(Len(s) - Len(pat) + 1) : SubSeq(s, k, k + Len(pat) - 1) = pat

\* "-" + pat + "-" occurs in the dash-joined s: the run has a segment before
\* it and a segment after it
DashedSegsIn(pat, s) ==
    \E k \in 2..(Len(s) - Len(pat)) : SubSeq(s, k, k + Len(pat) - 1) = pat

(***************************************************************************)
(* Identifiers of the model.                                               *)
(***************************************************************************)
Insts == {"inst-a", "inst-b"}

\* fdd-p-feature-f1-flow-x: a flow of feature f1 of project p
ScopeF1Flow == <<"fdd", "p", "feature", "f1", "flow", "x">>
\* fdd-f1-feature-f2-algo-y: an algorithm of feature f2 of a project named f1
ScopeF2Algo == <<"fdd", "f1", "feature", "f2", "algo", "y">>
\* fdd-p-feature-f1-req-r: a requirement scope
ScopeF1Req == <<"fdd", "p", "feature", "f1", "req", "r">>

MarkerScopes == {ScopeF1Flow, ScopeF2Algo}

(***************************************************************************)
(* The code marker scanner: extract_inst_tags_from_code.                   *)
(*                                                                         *)
(* A line of a file is the pair of its first begin-marker match and its    *)
(* first end-marker match (re.search), each a sequence of length 0 (no     *)
(* match) or 1 (the groups scope_id, inst_id).  A "file" token opens the   *)
(* next file of the walk; scanned says whether scan_directory hands it to  *)
(* scan_file and read_text succeeds.  The lines before the first "file"    *)
(* token are those of a first, scanned, file.                              *)
(***************************************************************************)
Marker(s, i) == [scope |-> s, inst |-> i]

Markers == {Marker(s, i) : s \in MarkerScopes, i \in Insts}

CodeLine(b, e) == [kind |-> "line", scanned |-> TRUE, begin |-> b, end |-> e]

FileToken(ok) == [kind |-> "file", scanned |-> ok, begin |-> <<>>, end |-> <<>>]

BeginLines == {CodeLine(<<m>>, <<>>) : m \in Markers}

EndLines == {CodeLine(<<>>, <<m>>) : m \in Markers}

\* a begin and an end marker on one line, and a line without a marker
OtherLines == {CodeLine(<<Marker(ScopeF1Flow, i)>>, <<Marker(ScopeF1Flow, i)>>) : i \in Insts}
                  \cup {CodeLine(<<>>, <<>>)}

ScanTokens == BeginLines \cup EndLines \cup OtherLines \cup {FileToken(TRUE), FileToken(FALSE)}

\* the index of inst_id's entry in tags, 0 when it has none
TagIndex(tags, inst_id) ==
    IF \E k \in 1..Len(tags) : tags[k].inst = inst_id
    THEN CHOOSE k \in 1..Len(tags) : tags[k].inst = inst_id
    ELSE 0

NewTag(inst_id) ==
    [inst |-> inst_id, has_begin |-> FALSE, has_end |-> FALSE, complete |-> FALSE,
     scopes |-> <<>>]

\* if inst_id not in inst_tags: inst_tags[inst_id] = {...}
EnsureTag(tags, inst_id) ==
    IF TagIndex(tags, inst_id) = 0 THEN Append(tags, NewTag(inst_id)) ELSE tags

AppendScope(scopes, scope_id) == Append(scopes, scope_id)

\* if scope_id not in scopes: scopes.append(scope_id)
AddScope(scopes, scope_id) ==
    IF scope_id \in Range(scopes) THEN scopes ELSE Append(scopes, scope_id)

\* the begin_match branch of scan_file's loop
RecordBegin(tags, m) ==
    LET t == EnsureTag(tags, m.inst)
        k == TagIndex(t, m.inst)
    IN  [t EXCEPT ![k].has_begin = TRUE, ![k].scopes = AddScope(@, m.scope)]

EndResetsBegin(tags, m) ==
    LET t == EnsureTag(tags, m.inst)
        k == TagIndex(t, m.inst)
    IN  [t EXCEPT ![k].has_end = t[k].has_begin, ![k].scopes = AddScope(@, m.scope)]

\* the end_match branch of scan_file's loop
RecordEnd(tags, m) ==
    LET t == EnsureTag(tags, m.inst)
        k == TagIndex(t, m.inst)
    IN  [t EXCEPT ![k].has_end = TRUE, ![k].scopes = AddScope(@, m.scope)]

\* one iteration of scan_file's loop over the lines
ScanLineOf(tags, line) ==
    LET afterBegin == IF line.begin # <<>> THEN RecordBegin(tags, line.begin[1]) ELSE tags
    IN  IF line.end # <<>> THEN RecordEnd(afterBegin, line.end[1]) ELSE afterBegin

\* the closing loop: complete = has_begin and has_end
MarkComplete(tags) ==
    [k \in 1..Len(tags) |-> [tags[k] EXCEPT !.complete = tags[k].has_begin /\ tags[k].has_end]]

\* the walk of scan_directory over the tokens from position p on
RECURSIVE ScanFrom(_, _, _, _)
ScanFrom(t, p, scanning, tags) ==
    IF p > Len(t) THEN tags
    ELSE IF t[p].kind = "file" THEN ScanFrom(t, p + 1, t[p].scanned, tags)
    ELSE IF scanning THEN ScanFrom(t, p + 1, scanning, ScanLineOf(tags, t[p]))
    ELSE ScanFrom(t, p + 1, scanning, tags)

\* extract_inst_tags_from_code as a function of the tree
ExtractInstTags(exists, t) ==
    IF exists THEN MarkComplete(ScanFrom(t, 1, TRUE, <<>>)) ELSE <<>>

(***************************************************************************)
(* The scoped-instruction tracker: extract_fdl_instructions.               *)
(*                                                                         *)
(* A line of the feature document is a scope declaration (it matches       *)
(* FDL_SCOPE_ID_RE; scope holds the backtick-quoted fdd- ID that re.search *)
(* finds on it), a step line (it matches FDL_STEP_LINE_RE: a numbered list *)
(* item with the checkbox mark and the trailing instruction ID inst), or   *)
(* any other line.                                                         *)
(***************************************************************************)
DesignScopes == {ScopeF1Flow, ScopeF2Algo}

CheckedMarks == {"x", "X"}

ScopeLine(s) == [kind |-> "scope", scope |-> <<s>>, mark |-> " ", inst |-> <<>>]

StepLine(m, i) == [kind |-> "step", scope |-> <<>>, mark |-> m, inst |-> <<i>>]

\* a line that matches FDL_SCOPE_ID_RE and holds no backtick-quoted fdd- ID
BareScopeLine == [kind |-> "scope", scope |-> <<>>, mark |-> " ", inst |-> <<>>]

ProseLine == [kind |-> "other", scope |-> <<>>, mark |-> " ", inst |-> <<>>]

DesignLines ==
    {ScopeLine(s) : s \in DesignScopes}
        \cup {BareScopeLine}
        \cup {StepLine(m, i) : m \in {"x", "X", " "}, i \in Insts}
        \cup {ProseLine}

\* FDL_SCOPE_ID_RE.match(line)
MatchesScopeIdRe(line) == line.kind = "scope"

\* FDL_STEP_LINE_RE.match(line)
MatchesStepLineRe(line) == line.kind = "step"

\* the index of scope_id's entry in a design_fdl dict, 0 when it has none
FdlIndex(fdl, scope_id) ==
    IF \E k \in 1..Len(fdl) : fdl[k].scope = scope_id
    THEN CHOOSE k \in 1..Len(fdl) : fdl[k].scope = scope_id
    ELSE 0

\* the state of the extraction loop before the first line
ExtractStart == [result |-> <<>>, current_scope_id |-> <<>>]

\* lines 32-37: a scope declaration sets the current scope and opens its entry
EnterScope(st, line) ==
    IF MatchesScopeIdRe(line) /\ line.scope # <<>>
    THEN [result |->
              IF FdlIndex(st.result, line.scope[1]) = 0
              THEN Append(st.result,
                          [scope |-> line.scope[1], instructions |-> <<>>, completed |-> <<>>])
              ELSE st.result,
          current_scope_id |-> line.scope]
    ELSE st

RecordStepWithFlagOfMark(st, line) ==
    IF st.current_scope_id # <<>> /\ MatchesStepLineRe(line) /\ line.inst # <<>>
    THEN LET k == FdlIndex(st.result, st.current_scope_id[1])
         IN  [st EXCEPT !.result[k].instructions = Append(@, line.inst[1]),
                        !.result[k].completed =
                            Append(@, IF line.mark \in CheckedMarks THEN line.inst[1] ELSE "")]
    ELSE st

RecordUncheckedSteps(st, line) ==
    IF st.current_scope_id # <<>> /\ MatchesStepLineRe(line) /\ line.inst # <<>>
    THEN LET k == FdlIndex(st.result, st.current_scope_id[1])
         IN  [st EXCEPT !.result[k].instructions = Append(@, line.inst[1]),
                        !.result[k].completed = Append(@, line.inst[1])]
    ELSE st

\* lines 40-47: a checked step line under a scope adds its instruction ID
RecordStep(st, line) ==
    IF st.current_scope_id # <<>> /\ MatchesStepLineRe(line)
       /\ line.mark \in CheckedMarks /\ line.inst # <<>>
    THEN LET k == FdlIndex(st.result, st.current_scope_id[1])
         IN  [st EXCEPT !.result[k].instructions = Append(@, line.inst[1]),
                        !.result[k].completed = Append(@, line.inst[1])]
    ELSE st

\* one iteration of the loop over text.splitlines()
ExtractLine(st, line) == RecordStep(EnterScope(st, line), line)

RECURSIVE ExtractFrom(_, _, _)
ExtractFrom(text, k, st) ==
    IF k > Len(text) THEN st ELSE ExtractFrom(text, k + 1, ExtractLine(st, text[k]))

extract_fdl_instructions(text) == ExtractFrom(text, 1, ExtractStart).result

(***************************************************************************)
(* The change log.  mentions are the fdd- IDs its text holds, each with    *)
(* whether it stands in a backtick pair of its own; status is the group    *)
(* that the status pattern of validate_fdl_completion captures, a sequence *)
(* of length 0 when the pattern does not match.                            *)
(***************************************************************************)
Mention(id, q) == [id |-> id, quoted |-> q]

ScopeTypes == {"flow", "algo", "state", "test"}

\* the characters of [a-z0-9]
IdChars ==
    {"a", "b", "c", "d", "e", "f", "g", "h", "i", "j", "k", "l", "m", "n", "o", "p", "q",
     "r", "s", "t", "u", "v", "w", "x", "y", "z",
     "0", "1", "2", "3", "4", "5", "6", "7", "8", "9"}

\* the segment, what stands between two dashes of an ID, is of [a-z0-9]*
IsIdSegment(seg) == \A n \in 1..Len(seg) : SubSeq(seg, n, n) \in IdChars

\* the token matches fdd-[a-z0-9-]+-(?:flow|algo|state|test)-[a-z0-9-]+ as a
\* whole: some segment k is a type word, with at least one character between
\* "fdd-" and the dash ahead of it (segments 2..k-1, joined by dashes), and at
\* least one character after the dash that follows it (segments k+1..Len(id))
HasScopeType(id) ==
    /\ Len(id) >= 4
    /\ id[1] = "fdd"
    /\ \A k \in 1..Len(id) : IsIdSegment(id[k])
    /\ \E k \in 3..(Len(id) - 1) :
           /\ id[k] \in ScopeTypes
           /\ (k > 3 \/ id[2] # "")
           /\ (k < Len(id) - 1 \/ id[Len(id)] # "")

ReferencesIgnoringBackticks(text) ==
    {m.id : m \in {n \in Range(text.mentions) : HasScopeType(n.id)}}

\* re.findall of the backtick-quoted, typed scope IDs
extract_scope_references_from_changes(text) ==
    {m.id : m \in {n \in Range(text.mentions) : n.quoted /\ HasScopeType(n.id)}}

CoverageError(scope_id) == [type |-> "fdl_coverage", scope_id |-> scope_id]

RECURSIVE CoverageFrom(_, _, _)
CoverageFrom(fdl, k, referenced_scopes) ==
    IF k > Len(fdl) THEN <<>>
    ELSE (IF fdl[k].scope \notin referenced_scopes
          THEN <<CoverageError(fdl[k].scope)>> ELSE <<>>)
         \o CoverageFrom(fdl, k + 1, referenced_scopes)

validate_fdl_coverage(text, fdl) ==
    CoverageFrom(fdl, 1, extract_scope_references_from_changes(text))

(***************************************************************************)
(* The two reconciliations of the document with the code markers.          *)
(***************************************************************************)
\* the bound of the examples lists of the Design->Code and Code->Design reports
ExamplesCap == 10

\* (scope_id, inst_id) for every instruction of every scope, in dict order
RECURSIVE Occurrences(_, _)
Occurrences(fdl, k) ==
    IF k > Len(fdl) THEN <<>>
    ELSE [j \in 1..Len(fdl[k].instructions) |->
              [scope |-> fdl[k].scope, instruction |-> fdl[k].instructions[j],
               index |-> j, entry |-> k]]
         \o Occurrences(fdl, k + 1)

Pair(o) == [scope |-> o.scope, instruction |-> o.instruction]

MapPairs(occ) == [j \in 1..Len(occ) |-> Pair(occ[j])]

ReasonOf(tag) ==
    IF ~tag.has_begin THEN "missing fdd-begin tag"
    ELSE IF ~tag.has_end THEN "missing fdd-end tag"
    ELSE "incomplete"

IncompleteCountedAsMissing(tags, fdl) ==
    LET occ == Occurrences(fdl, 1)
        IsMissing(o) == TagIndex(tags, o.instruction) = 0
                            \/ ~tags[TagIndex(tags, o.instruction)].complete
    IN  MapPairs(SelectSeq(occ, IsMissing))

\* lines 238-242: the occurrences whose instruction has no marker at all
MissingImplementations(tags, fdl) ==
    LET occ == Occurrences(fdl, 1)
        IsMissing(o) == TagIndex(tags, o.instruction) = 0
    IN  MapPairs(SelectSeq(occ, IsMissing))

\* lines 243-251: the occurrences whose instruction has half a marker pair
IncompleteImplementations(tags, fdl) ==
    LET occ == Occurrences(fdl, 1)
        IsIncomplete(o) == /\ TagIndex(tags, o.instruction) # 0
                           /\ ~tags[TagIndex(tags, o.instruction)].complete
        half == SelectSeq(occ, IsIncomplete)
    IN  [j \in 1..Len(half) |->
             [scope |-> half[j].scope, instruction |-> half[j].instruction,
              reason |-> ReasonOf(tags[TagIndex(tags, half[j].instruction)])]]

validate_fdl_code_implementation(exists, t, fdl) ==
    LET code_inst_tags == ExtractInstTags(exists, t)
        missing_implementations == MissingImplementations(code_inst_tags, fdl)
        incomplete_implementations == IncompleteImplementations(code_inst_tags, fdl)
    IN  (IF missing_implementations # <<>>
         THEN <<[type |-> "fdl_code_missing",
                 missing_count |-> Len(missing_implementations),
                 examples |-> Take(missing_implementations, ExamplesCap)]>>
         ELSE <<>>)
        \o
        (IF incomplete_implementations # <<>>
         THEN <<[type |-> "fdl_code_incomplete",
                 incomplete_count |-> Len(incomplete_implementations),
                 examples |-> Take(incomplete_implementations, ExamplesCap)]>>
         ELSE <<>>)

\* feature_root.name.startswith("feature-")
HasFeaturePrefix(name) == Len(name) >= 2 /\ name[1] = "feature"

\* the part of seg ahead of its closing "feature", a sequence of length 0 when
\* seg does not end in "feature"
StemOfFeature(seg) ==
    IF Len(seg) >= Len("feature")
       /\ SubSeq(seg, Len(seg) - Len("feature") + 1, Len(seg)) = "feature"
    THEN <<SubSeq(seg, 1, Len(seg) - Len("feature"))>>
    ELSE <<>>

\* name.replace("feature-", "") from segment k on: str.replace takes out every
\* occurrence of the substring, so a segment that ends in "feature" and that a
\* dash follows loses its "feature" and the dash, and what is left of it joins
\* the next segment ("feature-subfeature-x" gives "subx")
RECURSIVE ReplaceFeature(_, _)
ReplaceFeature(name, k) ==
    IF k > Len(name) THEN <<>>
    ELSE IF k = Len(name) THEN <<name[k]>>
    ELSE LET rest == ReplaceFeature(name, k + 1)
             stem == StemOfFeature(name[k])
         IN  IF stem # <<>>
             THEN <<stem[1] \o Head(rest)>> \o Tail(rest)
             ELSE <<name[k]>> \o rest

\* feature_slug, a sequence of length 0 for None
FeatureSlug(name) == IF HasFeaturePrefix(name) THEN <<ReplaceFeature(name, 1)>> ELSE <<>>

\* the truth value of the string that the segments join to
NonEmptyString(segs) == segs # <<>> /\ segs # <<"">>

SlugAnywhere(slug, tag) ==
    /\ slug # <<>>
    /\ NonEmptyString(slug[1])
    /\ \E j \in 1..Len(tag.scopes) : SegsIn(slug[1], tag.scopes[j])

\* lines 197-202: some scope of the tag holds "-feature-{slug}-"
BelongsToFeature(slug, tag) ==
    /\ slug # <<>>
    /\ NonEmptyString(slug[1])
    /\ \E j \in 1..Len(tag.scopes) : DashedSegsIn(<<"feature">> \o slug[1], tag.scopes[j])

\* the set of all [x] marked instruction IDs of a design_fdl
MarkedInstructions(fdl) == UNION {Range(fdl[k].instructions) : k \in 1..Len(fdl)}

UntrackedThoughMarked(tags, marked_instructions, slug) ==
    LET Untracked(tag) == tag.complete /\ BelongsToFeature(slug, tag)
        hits == SelectSeq(tags, Untracked)
    IN  [j \in 1..Len(hits) |-> hits[j].inst]

\* lines 189-206
UntrackedImplementations(tags, marked_instructions, slug) ==
    LET Untracked(tag) == /\ tag.complete
                          /\ tag.inst \notin marked_instructions
                          /\ BelongsToFeature(slug, tag)
        hits == SelectSeq(tags, Untracked)
    IN  [j \in 1..Len(hits) |-> hits[j].inst]

validate_fdl_code_to_design(exists, t, name, text) ==
    LET code_inst_tags == ExtractInstTags(exists, t)
        marked_instructions == MarkedInstructions(extract_fdl_instructions(text))
        untracked_implementations ==
            UntrackedImplementations(code_inst_tags, marked_instructions, FeatureSlug(name))
    IN  IF untracked_implementations # <<>>
        THEN <<[type |-> "fdl_untracked_implementation",
                count |-> Len(untracked_implementations),
                instructions |-> Take(untracked_implementations, ExamplesCap)]>>
        ELSE <<>>

(***************************************************************************)
(* The completion-status reconciler: validate_fdl_completion.              *)
(***************************************************************************)
\* the strings the status pattern can capture; the emoji is part of the group
StatusCompleted == "(check mark) COMPLETED"
StatusInProgress == "(arrows) IN_PROGRESS"
StatusNotStarted == "(hourglass) NOT_STARTED"
StatusImplemented == "(sparkles) IMPLEMENTED"

StatusGroups == {StatusCompleted, StatusInProgress, StatusNotStarted, StatusImplemented}

\* a completion flag is a string; the empty one is false
Truthy(flag) == flag # ""

\* an exception a function raises, as the list it returns in its place
Raises(exc) == <<[type |-> exc]>>

CompletedBranchOfFirstScope(fdl) ==
    LET occ == SelectSeq(Occurrences(fdl, 1), LAMBDA o : o.entry = 1)
        Unflagged(o) == ~Truthy(fdl[o.entry].completed[o.index])
        uncompleted_instructions == MapPairs(SelectSeq(occ, Unflagged))
    IN  IF uncompleted_instructions # <<>>
        THEN <<[type |-> "premature_completion",
                uncompleted_count |-> Len(uncompleted_instructions),
                examples |-> Take(uncompleted_instructions, ExamplesCap)]>>
        ELSE <<>>

\* lines 326-343: the instructions whose completion flag is not set
CompletedBranch(fdl) ==
    LET occ == Occurrences(fdl, 1)
        Unflagged(o) == ~Truthy(fdl[o.entry].completed[o.index])
        uncompleted_instructions == MapPairs(SelectSeq(occ, Unflagged))
    IN  IF \E j \in 1..Len(occ) : occ[j].index > Len(fdl[occ[j].entry].completed)
        THEN Raises("IndexError")
        ELSE IF uncompleted_instructions # <<>>
        THEN <<[type |-> "premature_completion",
                uncompleted_count |-> Len(uncompleted_instructions),
                examples |-> Take(uncompleted_instructions, ExamplesCap)]>>
        ELSE <<>>

\* feature_root is no name of validate_fdl_completion: reading it raises
\* NameError, and Python reads it only when status == "IMPLEMENTED" holds
validate_fdl_completion(text, fdl) ==
    IF text.status = <<>> THEN <<>>
    ELSE LET status == text.status[1]
         IN  IF status = "" THEN <<>>
             ELSE IF status = "IMPLEMENTED" THEN Raises("NameError")
             ELSE CompletedBranch(fdl)

(***************************************************************************)
(* Artifacts.  A line of an artifact carries what the validators look for  *)
(* on it; every line has heading, the section letter that HEADING_ID_RE    *)
(* captures (a sequence of length 0 or 1), and placeholder, whether        *)
(* PLACEHOLDER_RE finds an unresolved-work token on it.                    *)
(***************************************************************************)
\* sorted(ids) for the IDs of a universe listed in ascending order
Sorted(S, ascending) == SelectSeq(ascending, LAMBDA x : x \in S)

\* the section letters of the model, ascending
SectionLetters == <<"A", "B", "C", "D">>

SectionLine(c, todo) == [heading |-> c, placeholder |-> todo]

\* find_present_section_ids: the captured letters in document order
RECURSIVE find_present_section_ids(_)
find_present_section_ids(text) ==
    IF text = <<>> THEN <<>>
    ELSE Head(text).heading \o find_present_section_ids(Tail(text))

\* find_placeholders: one hit per line that holds a token, with its number
RECURSIVE PlaceholdersFrom(_, _)
PlaceholdersFrom(text, k) ==
    IF k > Len(text) THEN <<>>
    ELSE (IF text[k].placeholder THEN <<[line |-> k, text |-> text[k]]>> ELSE <<>>)
         \o PlaceholdersFrom(text, k + 1)

find_placeholders(text) == PlaceholdersFrom(text, 1)

\* passed: no issue of the artifact's own list, no placeholder and no error
Passed(issues, placeholders, errs) == issues = <<>> /\ placeholders = <<>> /\ errs = <<>>

StatusOf(passed) == IF passed THEN "PASS" ELSE "FAIL"

(***************************************************************************)
(* validate_generic_sections.  required is parse_required_sections'        *)
(* result: the entries (id, title) of the required sections in the order   *)
(* of the requirements file.                                               *)
(***************************************************************************)
Required(c) == [id |-> c, title |-> "Title"]

RequiredOrder(required) == [k \in 1..Len(required) |-> required[k].id]

\* lines 37-44
MissingSections(required, present_ids) ==
    SelectSeq(required, LAMBDA r : r.id \notin present_ids)

Count(list, x) == Cardinality({k \in 1..Len(list) : list[k] = x})

\* lines 49-54
DuplicateErrors(present_ids_list) ==
    LET dup_sids == Sorted({c \in Range(present_ids_list) : Count(present_ids_list, c) > 1},
                           SectionLetters)
    IN  IF dup_sids # <<>>
        THEN <<[type |-> "structure", message |-> "Duplicate section ids in artifact",
                ids |-> dup_sids]>>
        ELSE <<>>

OrderComparedAmongPresent(required, present_ids_list) ==
    LET required_order == RequiredOrder(required)
        present_required_in_order ==
            SelectSeq(present_ids_list, LAMBDA c : c \in Range(required_order))
    IN  IF present_required_in_order
               # SelectSeq(required_order, LAMBDA c : c \in Range(present_ids_list))
        THEN <<[type |-> "structure", message |-> "Sections are not in required order",
                required_order |-> required_order,
                found_order |-> present_required_in_order]>>
        ELSE <<>>

OrderComparedAsSets(required, present_ids_list) ==
    LET required_order == RequiredOrder(required)
        present_required_in_order ==
            SelectSeq(present_ids_list, LAMBDA c : c \in Range(required_order))
    IN  IF Range(present_required_in_order) # Range(required_order)
        THEN <<[type |-> "structure", message |-> "Sections are not in required order",
                required_order |-> required_order,
                found_order |-> present_required_in_order]>>
        ELSE <<>>

\* lines 57-67
OrderErrors(required, present_ids_list) ==
    LET required_order == RequiredOrder(required)
        present_required_in_order ==
            SelectSeq(present_ids_list, LAMBDA c : c \in Range(required_order))
    IN  IF present_required_in_order # required_order
        THEN <<[type |-> "structure", message |-> "Sections are not in required order",
                required_order |-> required_order,
                found_order |-> present_required_in_order]>>
        ELSE <<>>

UnparsedRequirementsError ==
    [type |-> "requirements",
     message |-> "Could not parse required sections from requirements file (expected headings like '### Section X: ...')",
     requirements |-> "requirements.md"]

UnparsedRequirementsJudged(placeholders) ==
    [required_section_count |-> 0,
     missing_sections |-> <<>>,
     placeholder_hits |-> placeholders,
     status |-> StatusOf(Passed(<<>>, placeholders, <<>>)),
     errors |-> <<>>]

\* the early return: no required section was parsed
UnparsedRequirements(placeholders) ==
    [required_section_count |-> 0,
     missing_sections |-> <<>>,
     placeholder_hits |-> placeholders,
     status |-> "FAIL",
     errors |-> <<UnparsedRequirementsError>>]

validate_generic_sections(text, required) ==
    IF required = <<>>
    THEN UnparsedRequirements(find_placeholders(text))
    ELSE LET present_ids_list == find_present_section_ids(text)
             missing == MissingSections(required, Range(present_ids_list))
             errs == DuplicateErrors(present_ids_list) \o OrderErrors(required, present_ids_list)
             placeholders == find_placeholders(text)
         IN  [required_section_count |-> Len(required),
              missing_sections |-> missing,
              placeholder_hits |-> placeholders,
              status |-> StatusOf(Passed(missing, placeholders, errs)),
              errors |-> errs]

(***************************************************************************)
(* common_checks.  A line of the artifact carries: comment_words, for each *)
(* HTML comment on it that holds a placeholder word, the first such word   *)
(* of the list; braces, the brace placeholders on it; notations, the       *)
(* IDE-specific link tokens on it; links, the targets LINK_RE captures;    *)
(* id_label, whether it holds "**ID**:"; id_val, what ID_LINE_RE captures  *)
(* (of length 0 or 1): bare, whether the value holds "fdd-" and no         *)
(* backtick, and ids, the backtick-quoted fdd- tokens of it; checkbox,     *)
(* whether it is a checkbox ID line; id_start, whether it starts as an ID  *)
(* line; blank; md_heading, whether it is a heading of level 2 to 6;       *)
(* section_form, whether it is a heading of the "## Section X:" form.      *)
(* A link target is absolute, relative (with whether the file it resolves  *)
(* to exists), an anchor, a URL, or blank.                                 *)
(***************************************************************************)
ProseOfCommon ==
    [comment_words |-> <<>>, braces |-> <<>>, notations |-> <<>>, links |-> <<>>,
     id_label |-> FALSE, id_val |-> <<>>, checkbox |-> FALSE, id_start |-> FALSE,
     blank |-> FALSE, md_heading |-> FALSE, section_form |-> FALSE]

Target(kind, exists) == [kind |-> kind, exists |-> exists]

\* lines 101-110
CommonPlaceholders(text) ==
    ConcatAll([k \in 1..Len(text) |->
                 [n \in 1..Len(text[k].comment_words) |->
                     [type |-> "html_comment", token |-> text[k].comment_words[n]]]])
    \o ConcatAll([k \in 1..Len(text) |->
                    [n \in 1..Len(text[k].braces) |->
                        [type |-> "brace_placeholder", token |-> text[k].braces[n]]]])

\* lines 113-115
NotationErrors(text) ==
    ConcatAll([k \in 1..Len(text) |->
                 [n \in 1..Len(text[k].notations) |->
                     [type |-> "link_format",
                      message |-> "Disallowed IDE-specific link notation",
                      token |-> text[k].notations[n]]]])

\* lines 121-134: the error of one link target on line idx, if any
LinkError(text, idx, target) ==
    IF target.kind \in {"blank", "anchor", "url"} THEN <<>>
    ELSE IF target.kind = "absolute"
    THEN <<[type |-> "link_format", message |-> "Absolute link targets are not allowed",
            line |-> idx, text |-> text[idx]]>>
    ELSE IF ~target.exists
    THEN <<[type |-> "link_target", message |-> "Broken file link target",
            line |-> idx, target |-> target, text |-> text[idx]]>>
    ELSE <<>>

\* lines 118-134
LinkErrors(text, skip) ==
    IF skip THEN <<>>
    ELSE ConcatAll([idx \in 1..Len(text) |->
                      ConcatAll([n \in 1..Len(text[idx].links) |->
                                   LinkError(text, idx, text[idx].links[n])])])

\* line 140-144: the lines whose ID value is read
HasIdValue(line) == line.id_label /\ line.id_val # <<>>

\* lines 147-149
BacktickErrors(text) ==
    ConcatAll([k \in 1..Len(text) |->
                 IF HasIdValue(text[k]) /\ text[k].id_val[1].bare /\ ~text[k].checkbox
                 THEN <<[type |-> "id", message |-> "ID values must be wrapped in backticks",
                         line |-> k, text |-> text[k]]>>
                 ELSE <<>>])

\* the ascending order of the fdd- IDs of the model
FddIds == <<"fdd-a", "fdd-b">>

\* lines 151-157
DuplicateIdErrors(text) ==
    LET ids_seen == ConcatAll([k \in 1..Len(text) |->
                                 IF HasIdValue(text[k]) THEN text[k].id_val[1].ids ELSE <<>>])
        dup_ids == Sorted({x \in Range(ids_seen) : Count(ids_seen, x) > 1}, FddIds)
    IN  IF dup_ids # <<>>
        THEN <<[type |-> "id", message |-> "Duplicate fdd- IDs in document", ids |-> dup_ids]>>
        ELSE <<>>

\* lines 165-167: the first line after i that is not blank, Len + 1 if none
NextNonBlank(text, i) ==
    LET later == {j \in (i + 1)..Len(text) : ~text[j].blank}
    IN  IF later = {} THEN Len(text) + 1 ELSE MinOf(later)

\* lines 161-176
SpacingErrors(text) ==
    ConcatAll([i \in 1..Len(text) |->
                 IF /\ i < Len(text)
                    /\ text[i].md_heading
                    /\ NextNonBlank(text, i) <= Len(text)
                    /\ text[NextNonBlank(text, i)].id_start
                    /\ NextNonBlank(text, i) # i + 2
                 THEN <<[type |-> "id",
                         message |-> "Exactly one blank line is required between heading and **ID** line",
                         line |-> i, text |-> text[i]]>>
                 ELSE <<>>])

\* lines 179-181
SectionFormErrors(text) ==
    ConcatAll([k \in 1..Len(text) |->
                 IF text[k].section_form
                 THEN <<[type |-> "section_heading",
                         message |-> "Disallowed section heading format (use '## A. Title')",
                         line |-> k, text |-> text[k]]>>
                 ELSE <<>>])

common_checks(text, skip) ==
    [errors |-> NotationErrors(text) \o LinkErrors(text, skip) \o BacktickErrors(text)
                    \o DuplicateIdErrors(text) \o SpacingErrors(text)
                    \o SectionFormErrors(text),
     placeholder_hits |-> CommonPlaceholders(text)]

(***************************************************************************)
(* Sibling documents.  load_text returns a text and an error; a loaded     *)
(* document is the pair: err of length 0 or 1, text the lines.             *)
(***************************************************************************)
Loaded(text) == [err |-> <<>>, text |-> text]

LoadError(msg) == [err |-> <<msg>>, text |-> <<>>]

\* the IDs of the model, each universe ascending
ActorIds == <<"actor-a", "actor-b">>
CapabilityIds == <<"cap-1", "cap-2">>
UsecaseIds == <<"uc-1", "uc-2">>
AdrIds == <<"adr-x", "adr-y">>

\* the IDs of a kind on the lines, the kind named by its field
UnionOver(text, lines, field) == UNION {text[j][field] : j \in lines}

(***************************************************************************)
(* parse_business_model.  A line of BUSINESS.md: cap_heading, whether it   *)
(* holds the capability section's heading; h2, whether it starts with      *)
(* "## "; caps, the capability IDs on it in order; actors and usecases,    *)
(* the actor and use case IDs on it.  The mapping is a function from the   *)
(* capability IDs that are keys to their sets of actors.                   *)
(***************************************************************************)
BusinessLine(capHeading, h2, caps, actors, usecases) ==
    [cap_heading |-> capHeading, h2 |-> h2, caps |-> caps, actors |-> actors,
     usecases |-> usecases]

BusinessStart == [in_capability_section |-> FALSE, current_capability_id |-> <<>>,
                  capability_to_actors |-> <<>>]

\* d[key] = value
SetItem(d, key, value) == [k \in (DOMAIN d) \cup {key} |-> IF k = key THEN value ELSE d[k]]

\* lines 53-70, one line
BusinessLineStep(st, line) ==
    IF line.cap_heading
    THEN [st EXCEPT !.in_capability_section = TRUE]
    ELSE LET inside == st.in_capability_section /\ ~line.h2
             current == IF inside /\ line.caps # <<>>
                        THEN <<line.caps[1]>>
                        ELSE st.current_capability_id
             reset == IF inside /\ line.caps # <<>>
                      THEN SetItem(st.capability_to_actors, line.caps[1], {})
                      ELSE st.capability_to_actors
             added == IF inside /\ current # <<>>
                      THEN SetItem(reset, current[1], reset[current[1]] \cup line.actors)
                      ELSE reset
         IN  [in_capability_section |-> inside,
              current_capability_id |-> current,
              capability_to_actors |-> added]

RECURSIVE BusinessFrom(_, _, _)
BusinessFrom(text, k, st) ==
    IF k > Len(text) THEN st
    ELSE BusinessFrom(text, k + 1, BusinessLineStep(st, text[k]))

parse_business_model(text) ==
    [actor_ids |-> UnionOver(text, 1..Len(text), "actors"),
     capability_to_actors |-> BusinessFrom(text, 1, BusinessStart).capability_to_actors,
     usecase_ids |-> UnionOver(text, 1..Len(text), "usecases")]

(***************************************************************************)
(* parse_adr_index.  A line of ADR.md: adr_heading, what ADR_HEADING_RE    *)
(* captures (reference, number, title), of length 0 or 1; h2; date and     *)
(* status, what ADR_DATE_RE and ADR_STATUS_RE capture; adr_ids, the ADR    *)
(* IDs on it in order.  None is the empty sequence.                        *)
(***************************************************************************)
LookaheadWindow == 10

\* lines 101-119: the lines the look-ahead reads after the heading at i
LookaheadLines(text, i) ==
    LET last == Min(i + LookaheadWindow - 1, Len(text))
        headings == {j \in (i + 1)..last : text[j].h2}
        stop == IF headings = {} THEN last ELSE MinOf(headings)
    IN  (i + 1)..stop

\* the last captured value among the lines read, None when there is none
LastValue(text, lines, field) ==
    LET holders == {j \in lines : text[j][field] # <<>>}
    IN  IF holders = {} THEN <<>> ELSE <<text[MaxOf(holders)][field][1]>>

AdrEntry(text, i) ==
    LET read == LookaheadLines(text, i)
        h == text[i].adr_heading[1]
    IN  [ref |-> h.ref, num |-> h.num, title |-> h.title,
         date |-> LastValue(text, read, "date"),
         status |-> LastValue(text, read, "status"),
         id |-> LastValue(text, read, "adr_ids")]

RECURSIVE AdrEntriesFrom(_, _)
AdrEntriesFrom(text, i) ==
    IF i > Len(text) THEN <<>>
    ELSE (IF text[i].adr_heading # <<>> THEN <<AdrEntry(text, i)>> ELSE <<>>)
         \o AdrEntriesFrom(text, i + 1)

\* the entries; the issue list the function returns with them is always empty
parse_adr_index(text) == [adrs |-> AdrEntriesFrom(text, 1), issues |-> <<>>]

(***************************************************************************)
(* validate_overall_design.  A line of DESIGN.md: heading and placeholder  *)
(* as above; c_sub, the number "### C.<n>" captures; id_label, whether it  *)
(* holds "**ID**:"; req_ids, the requirement IDs on it in order; caps,     *)
(* actors, usecases, adr_ids, the IDs of each kind on it; adr_nums, the    *)
(* numbers ADR_NUM_RE captures on it; principles, the principle IDs.       *)
(* skip is the condition under which the siblings are not loaded.          *)
(***************************************************************************)
ProseOfDesign ==
    [heading |-> <<>>, placeholder |-> FALSE, c_sub |-> <<>>, id_label |-> FALSE,
     req_ids |-> <<>>, caps |-> {}, actors |-> {}, usecases |-> {}, adr_ids |-> {},
     adr_nums |-> {}, principles |-> {}]

NeededSections == <<"A", "B", "C">>
ExpectedSubsections == <<"1", "2", "3", "4", "5">>

\* lines 152-156
MissingTopLevel(text) ==
    SelectSeq(NeededSections, LAMBDA c : c \notin Range(find_present_section_ids(text)))

\* lines 158-162
SubsectionErrors(text) ==
    LET c_subs == ConcatAll([k \in 1..Len(text) |-> text[k].c_sub])
    IN  IF c_subs # <<>> /\ c_subs # ExpectedSubsections
        THEN <<[type |-> "structure",
                message |-> "Section C must have exactly C.1..C.5 in order",
                found |-> c_subs]>>
        ELSE <<>>

NoBusinessModel == [actor_ids |-> {}, capability_to_actors |-> <<>>, usecase_ids |-> {}]

\* lines 186-190: adr_ids and adr_num_to_id, the last entry of a number wins
AdrIdsOf(entries) == {entries[k].id[1] : k \in {k2 \in 1..Len(entries) : entries[k2].id # <<>>}}

AdrNumToId(entries) ==
    LET identified == {k \in 1..Len(entries) : entries[k].id # <<>>}
    IN  [n \in {entries[k].num : k \in identified} |->
            entries[MaxOf({k \in identified : entries[k].num = n})].id[1]]

\* the IDs the numbers resolve to
Resolved(nums, adr_num_to_id) == {adr_num_to_id[n] : n \in nums \cap DOMAIN adr_num_to_id}

\* line 194
IdLines(text) ==
    SelectSeq([i \in 1..Len(text) |-> i],
              LAMBDA i : text[i].id_label /\ text[i].req_ids # <<>>)

\* lines 195-211
ReqBlock(text, idxs, k, adr_num_to_id) ==
    LET start == idxs[k]
        end == IF k + 1 <= Len(idxs) THEN idxs[k + 1] - 1 ELSE Len(text)
        block == start..end
    IN  [id |-> text[start].req_ids[1],
         caps |-> UnionOver(text, block, "caps"),
         actors |-> UnionOver(text, block, "actors"),
         usecases |-> UnionOver(text, block, "usecases"),
         adr_ids |-> UnionOver(text, block, "adr_ids")
                        \cup Resolved(UnionOver(text, block, "adr_nums"),
                                      adr_num_to_id)]

ReqBlocks(text, adr_num_to_id) ==
    LET idxs == IdLines(text)
    IN  [k \in 1..Len(idxs) |-> ReqBlock(text, idxs, k, adr_num_to_id)]

\* lines 244-246
AllowedActors(rb, caps_to_actors) ==
    UNION {caps_to_actors[c] : c \in rb.caps \cap DOMAIN caps_to_actors}

\* lines 247-248
ActorsMatch(rb, caps_to_actors) ==
    LET allowed == AllowedActors(rb, caps_to_actors)
    IN  IF allowed # {} /\ rb.actors # {} /\ ~(rb.actors \subseteq allowed)
        THEN <<[requirement |-> rb.id,
                message |-> "Actors must match actors of referenced capabilities",
                actors |-> Sorted(rb.actors, ActorIds),
                allowed |-> Sorted(allowed, ActorIds)]>>
        ELSE <<>>

\* lines 236-238, 241-243, 251-253, 256-258
UnknownIds(rid, ids, known, message, ascending) ==
    LET bad == Sorted(ids \ known, ascending)
    IN  IF bad # <<>> THEN <<[requirement |-> rid, message |-> message, ids |-> bad]>>
        ELSE <<>>

\* lines 222-258: the issues of one requirement block
RequirementIssues(rb, business, adr_ids) ==
    (IF rb.caps = {}
     THEN <<[requirement |-> rb.id, message |-> "Missing capability references"]>>
     ELSE <<>>)
    \o (IF rb.actors = {}
        THEN <<[requirement |-> rb.id, message |-> "Missing actor references"]>>
        ELSE <<>>)
    \o (IF business.actor_ids # {}
        THEN UnknownIds(rb.id, rb.actors, business.actor_ids, "Unknown actor IDs", ActorIds)
        ELSE <<>>)
    \o (IF DOMAIN business.capability_to_actors # {}
        THEN UnknownIds(rb.id, rb.caps, DOMAIN business.capability_to_actors,
                        "Unknown capability IDs", CapabilityIds)
             \o ActorsMatch(rb, business.capability_to_actors)
        ELSE <<>>)
    \o (IF business.usecase_ids # {} /\ rb.usecases # {}
        THEN UnknownIds(rb.id, rb.usecases, business.usecase_ids, "Unknown use case IDs",
                        UsecaseIds)
        ELSE <<>>)
    \o (IF adr_ids # {} /\ rb.adr_ids # {}
        THEN UnknownIds(rb.id, rb.adr_ids, adr_ids, "Unknown ADR references", AdrIds)
        ELSE <<>>)

\* lines 217, 231
CapCovered(req_blocks) == UNION {req_blocks[k].caps : k \in 1..Len(req_blocks)}

\* lines 260-279: one traceability error for the IDs nothing covers
Orphaned(ids, covered, message, ascending) ==
    LET missing == Sorted(ids \ covered, ascending)
    IN  IF ids # {} /\ missing # <<>>
        THEN <<[type |-> "traceability", message |-> message, ids |-> missing]>>
        ELSE <<>>

CrossErrors(doc) ==
    IF doc.err # <<>> THEN <<[type |-> "cross", message |-> doc.err[1]]>> ELSE <<>>

\* the global names of adr.py: what the import system binds in every module
\* loaded from a source file, what lines 7-24 import and what the module
\* itself binds, __all__ of line 28 included
AdrModuleNames ==
    {"__name__", "__doc__", "__package__", "__loader__", "__spec__", "__file__",
     "__cached__", "__builtins__",
     "re", "Path", "Dict", "List", "Optional", "Tuple",
     "ADR_HEADING_RE", "ADR_DATE_RE", "ADR_STATUS_RE", "ADR_ID_RE", "ADR_NUM_RE",
     "find_placeholders", "parse_adr_index", "load_text", "field_block", "has_list_item",
     "__all__", "validate_adr", "validate_overall_design", "FIELD_HEADER_RE", "KNOWN_FIELD_NAMES",
     "SECTION_BUSINESS_RE", "split_by_business_section_letter", "extract_backticked_ids",
     "_paragraph_count"}

\* the names of Python's builtins module, the ones the two validators read
\* (any, enumerate, int, iter, len, list, next, object, range, set, sorted,
\* str) among them
Builtins ==
    {"ArithmeticError", "AssertionError", "AttributeError", "BaseException",
     "BaseExceptionGroup", "BlockingIOError", "BrokenPipeError", "BufferError",
     "BytesWarning", "ChildProcessError", "ConnectionAbortedError", "ConnectionError",
     "ConnectionRefusedError", "ConnectionResetError", "DeprecationWarning", "EOFError",
     "Ellipsis", "EncodingWarning", "EnvironmentError", "Exception", "ExceptionGroup",
     "False", "FileExistsError", "FileNotFoundError", "FloatingPointError", "FutureWarning",
     "GeneratorExit", "IOError", "ImportError", "ImportWarning", "IndentationError",
     "IndexError", "InterruptedError", "IsADirectoryError", "KeyError", "KeyboardInterrupt",
     "LookupError", "MemoryError", "ModuleNotFoundError", "NameError", "None",
     "NotADirectoryError", "NotImplemented", "NotImplementedError", "OSError",
     "OverflowError", "PendingDeprecationWarning", "PermissionError", "ProcessLookupError",
     "RecursionError", "ReferenceError", "ResourceWarning", "RuntimeError", "RuntimeWarning",
     "StopAsyncIteration", "StopIteration", "SyntaxError", "SyntaxWarning", "SystemError",
     "SystemExit", "TabError", "TimeoutError", "True", "TypeError", "UnboundLocalError",
     "UnicodeDecodeError", "UnicodeEncodeError", "UnicodeError", "UnicodeTranslateError",
     "UnicodeWarning", "UserWarning", "ValueError", "Warning", "ZeroDivisionError",
     "__build_class__", "__debug__", "__doc__", "__import__", "__loader__", "__name__",
     "__package__", "__spec__", "abs", "aiter", "all", "anext", "any", "ascii", "bin",
     "bool", "breakpoint", "bytearray", "bytes", "callable", "chr", "classmethod", "compile",
     "complex", "copyright", "credits", "delattr", "dict", "dir", "divmod", "enumerate",
     "eval", "exec", "exit", "filter", "float", "format", "frozenset", "getattr", "globals",
     "hasattr", "hash", "help", "hex", "id", "input", "int", "isinstance", "issubclass",
     "iter", "len", "license", "list", "locals", "map", "max", "memoryview", "min", "next",
     "object", "oct", "open", "ord", "pow", "print", "property", "quit", "range", "repr",
     "reversed", "round", "set", "setattr", "slice", "sorted", "staticmethod", "str", "sum",
     "super", "tuple", "type", "vars", "zip"}

\* Python looks a global name up when the statement that reads it runs, in the
\* module's globals and then in the builtins, and raises NameError when neither
\* binds the name
Bound(name) == name \in AdrModuleNames \/ name \in Builtins

\* line 152 reads find_present_section_ids, which adr.py neither imports nor
\* defines: the call raises NameError on every input, ahead of every check of
\* lines 153-290
validate_overall_design(text, skip, business_doc, adr_doc) ==
    IF ~Bound("find_present_section_ids") THEN Raises("NameError") ELSE
    LET placeholders == find_placeholders(text)
        missing == MissingTopLevel(text)
        business == IF skip \/ business_doc.err # <<>> THEN NoBusinessModel
                    ELSE parse_business_model(business_doc.text)
        index == IF skip \/ adr_doc.err # <<>> THEN [adrs |-> <<>>, issues |-> <<>>]
                 ELSE parse_adr_index(adr_doc.text)
        adr_ids == AdrIdsOf(index.adrs)
        adr_num_to_id == AdrNumToId(index.adrs)
        req_blocks == ReqBlocks(text, adr_num_to_id)
        req_issues ==
            (IF req_blocks = <<>>
             THEN <<[message |-> "No functional requirement IDs found"]>>
             ELSE <<>>)
            \o ConcatAll([k \in 1..Len(req_blocks) |->
                            RequirementIssues(req_blocks[k], business, adr_ids)])
        uc_covered == UNION {req_blocks[k].usecases : k \in 1..Len(req_blocks)}
        covered == UnionOver(text, 1..Len(text), "adr_ids")
                       \cup Resolved(UnionOver(text, 1..Len(text), "adr_nums"),
                                     adr_num_to_id)
        errs ==
            (IF missing # <<>>
             THEN <<[type |-> "structure", message |-> "Missing required top-level sections",
                     missing |-> missing]>>
             ELSE <<>>)
            \o SubsectionErrors(text)
            \o (IF skip THEN <<>> ELSE CrossErrors(business_doc))
            \o (IF skip THEN <<>> ELSE CrossErrors(adr_doc) \o index.issues)
            \o Orphaned(DOMAIN business.capability_to_actors, CapCovered(req_blocks),
                        "Orphaned capabilities (not referenced in DESIGN.md requirements)",
                        CapabilityIds)
            \o Orphaned(business.usecase_ids, uc_covered,
                        "Orphaned use cases (not referenced in DESIGN.md requirements)",
                        UsecaseIds)
            \o Orphaned(adr_ids, covered, "Orphaned ADRs (not referenced in DESIGN.md)", AdrIds)
    IN  [required_section_count |-> Len(NeededSections),
         missing_sections |-> [k \in 1..Len(missing) |-> [id |-> missing[k], title |-> ""]],
         placeholder_hits |-> placeholders,
         status |-> StatusOf(Passed(req_issues, placeholders, errs)),
         errors |-> errs,
         requirement_issues |-> req_issues,
         requirement_count |-> Len(req_blocks)]

(***************************************************************************)
(* validate_adr.  A line of ADR.md, besides what parse_adr_index reads:    *)
(* placeholder; sections, the required section headings it holds; actors,  *)
(* caps, req_ids and principles, the IDs of each kind on it in order;      *)
(* lead, for a line that holds "### Related Design Elements", how many of  *)
(* the IDs of each kind stand ahead of the first such heading on the line. *)
(***************************************************************************)
NoLead == [actors |-> 0, caps |-> 0, req_ids |-> 0, principles |-> 0]

ProseOfAdr ==
    [adr_heading |-> <<>>, h2 |-> FALSE, date |-> <<>>, status |-> <<>>, adr_ids |-> <<>>,
     heading |-> <<>>, placeholder |-> FALSE, sections |-> {}, actors |-> <<>>,
     caps |-> <<>>, req_ids |-> <<>>, principles |-> <<>>, lead |-> NoLead]

AdrSections ==
    <<"### Context and Problem Statement", "### Decision Drivers", "### Considered Options",
      "### Decision Outcome", "### Related Design Elements">>

RelatedSection == "### Related Design Elements"

\* f"Missing section: {sec}" for each of the sections
MissingSectionMessage ==
    <<"Missing section: ### Context and Problem Statement",
      "Missing section: ### Decision Drivers",
      "Missing section: ### Considered Options",
      "Missing section: ### Decision Outcome",
      "Missing section: ### Related Design Elements">>

ReqId(k) == <<"req", k>>

RequirementIds == [k \in 1..(MaxReqBlocks + 1) |-> ReqId(k)]

PrincipleIds == <<"principle-p">>

\* sorted(list), repeats kept
SortedList(list, ascending) ==
    ConcatAll([k \in 1..Len(ascending) |->
                 [n \in 1..Count(list, ascending[k]) |-> ascending[k]]])

\* the IDs of a kind in the lines, in order
FindAll(text, lines, field) ==
    ConcatAll([j \in 1..Len(text) |-> IF j \in lines THEN text[j][field] ELSE <<>>])

\* line 94, block_text.split("### Related Design Elements", 1)[1]: the text
\* after the first heading of the block, the rest of the heading's own line
\* included; the IDs of a kind in it, in order
RelatedIds(text, holders, related, field) ==
    IF holders = {} THEN <<>>
    ELSE LET h == MinOf(holders)
             ids == text[h][field]
         IN  SubSeq(ids, text[h].lead[field] + 1, Len(ids)) \o FindAll(text, related, field)

UnknownRelated(adr, found, known, message, ascending) ==
    LET bad == SortedList(SelectSeq(found, LAMBDA x : x \notin known), ascending)
    IN  IF known # {} /\ bad # <<>>
        THEN <<[adr |-> adr, message |-> message, ids |-> bad]>>
        ELSE <<>>

\* lines 71-113: the issues of the ADR whose block is the lines first..last
FlushIssues(text, adr, first, last, known) ==
    LET block == first..last
        holders == {j \in block : RelatedSection \in text[j].sections}
        related == IF holders = {} THEN {} ELSE (MinOf(holders) + 1)..last
        actors == RelatedIds(text, holders, related, "actors")
        caps == RelatedIds(text, holders, related, "caps")
        reqs == RelatedIds(text, holders, related, "req_ids")
        principles == RelatedIds(text, holders, related, "principles")
    IN  (IF \A j \in block : text[j].date = <<>>
         THEN <<[adr |-> adr, message |-> "Missing **Date**: YYYY-MM-DD"]>>
         ELSE <<>>)
        \o (IF \A j \in block : text[j].status = <<>>
            THEN <<[adr |-> adr, message |-> "Missing or invalid **Status**"]>>
            ELSE <<>>)
        \o ConcatAll([k \in 1..Len(AdrSections) |->
                        IF \A j \in block : AdrSections[k] \notin text[j].sections
                        THEN <<[adr |-> adr, message |-> MissingSectionMessage[k]]>>
                        ELSE <<>>])
        \o (IF holders = {} THEN <<>>
            ELSE (IF actors \o caps \o reqs \o principles = <<>>
                  THEN <<[adr |-> adr,
                          message |-> "Related Design Elements must contain at least one ID"]>>
                  ELSE <<>>)
                 \o UnknownRelated(adr, actors, known.actors,
                                   "Unknown actor IDs in Related Design Elements", ActorIds)
                 \o UnknownRelated(adr, caps, known.caps,
                                   "Unknown capability IDs in Related Design Elements",
                                   CapabilityIds)
                 \o UnknownRelated(adr, reqs, known.reqs,
                                   "Unknown requirement IDs in Related Design Elements",
                                   RequirementIds)
                 \o UnknownRelated(adr, principles, known.principles,
                                   "Unknown principle IDs in Related Design Elements",
                                   PrincipleIds))

\* lines 118-127: every ADR heading opens a block that runs to the next one
PerAdrIssues(text, known) ==
    LET hs == SelectSeq([i \in 1..Len(text) |-> i], LAMBDA i : text[i].adr_heading # <<>>)
    IN  ConcatAll([k \in 1..Len(hs) |->
                     FlushIssues(text, text[hs[k]].adr_heading[1].ref, hs[k] + 1,
                                 IF k + 1 <= Len(hs) THEN hs[k + 1] - 1 ELSE Len(text),
                                 known)])

\* line 40 reads _parse_adr_index; adr.py imports parse_adr_index, without
\* the underscore: the call raises NameError on every input
validate_adr(text, skip, business_doc, design_doc) ==
    IF ~Bound("_parse_adr_index") THEN Raises("NameError") ELSE
    LET placeholders == find_placeholders(text)
        index == parse_adr_index(text)
        business_read == ~skip /\ business_doc.err = <<>>
        design_read == ~skip /\ design_doc.err = <<>>
        bt == business_doc.text
        dt == design_doc.text
        known ==
            [actors |-> IF business_read THEN UnionOver(bt, 1..Len(bt), "actors")
                        ELSE {},
             caps |-> IF business_read THEN Range(FindAll(bt, 1..Len(bt), "caps"))
                      ELSE {},
             reqs |-> IF design_read THEN Range(FindAll(dt, 1..Len(dt), "req_ids"))
                      ELSE {},
             principles |-> IF design_read
                            THEN UnionOver(dt, 1..Len(dt), "principles")
                            ELSE {}]
        errs == index.issues
                    \o (IF skip THEN <<>> ELSE CrossErrors(business_doc))
                    \o (IF skip THEN <<>> ELSE CrossErrors(design_doc))
        per_adr_issues == PerAdrIssues(text, known)
    IN  [required_section_count |-> Len(AdrSections),
         missing_sections |-> <<>>,
         placeholder_hits |-> placeholders,
         status |-> StatusOf(Passed(per_adr_issues, placeholders, errs)),
         errors |-> errs,
         adr_issues |-> per_adr_issues,
         adr_count |-> Len(index.adrs)]

(***************************************************************************)
(* Values of the variables a specification does not use.                   *)
(***************************************************************************)
NoChanges == [mentions |-> <<>>, status |-> <<>>]

FeatureF1 == <<"feature", "f1">>

IdleScan ==
    /\ tree = <<>>
    /\ root_exists = TRUE
    /\ pos = 1
    /\ file_scanned = TRUE
    /\ inst_tags = <<>>

IdleFdl ==
    /\ design_text = <<>>
    /\ design_fdl = <<>>
    /\ changes_text = NoChanges
    /\ feature_name = FeatureF1
    /\ fdl_errors = <<>>
    /\ untracked_errors = <<>>

IdleArtifact ==
    /\ artifact_text = <<>>
    /\ required_sections = <<>>
    /\ business_text = <<>>
    /\ sibling_text = <<>>
    /\ skip_fs_checks = TRUE
    /\ result = <<>>

(***************************************************************************)
(* SpecScan: extract_inst_tags_from_code, one step per token of the walk.  *)
(***************************************************************************)
InitScan ==
    /\ pc = "start"
    /\ tree \in SeqsUpTo(ScanTokens, MaxScanTokens)
    /\ root_exists \in BOOLEAN
    /\ pos = 1
    /\ file_scanned = TRUE
    /\ inst_tags = <<>>
    /\ IdleFdl
    /\ IdleArtifact

\* lines 149-153: the walk starts only when the roots exist
StartWalk ==
    /\ pc = "start"
    /\ pc' = IF root_exists THEN "scan" ELSE "mark"
    /\ UNCHANGED <<scanVars, fdlVars, artifactVars>>

\* scan_directory reaches the next file
OpenFile ==
    /\ pc = "scan"
    /\ pos <= Len(tree)
    /\ tree[pos].kind = "file"
    /\ file_scanned' = tree[pos].scanned
    /\ pos' = pos + 1
    /\ UNCHANGED <<pc, tree, root_exists, inst_tags, fdlVars, artifactVars>>

\* scan_file reads the next line of the file
ScanLine ==
    /\ pc = "scan"
    /\ pos <= Len(tree)
    /\ tree[pos].kind = "line"
    /\ file_scanned
    /\ inst_tags' = ScanLineOf(inst_tags, tree[pos])
    /\ pos' = pos + 1
    /\ UNCHANGED <<pc, tree, root_exists, file_scanned, fdlVars, artifactVars>>

\* a line of a file that is not read
SkipLine ==
    /\ pc = "scan"
    /\ pos <= Len(tree)
    /\ tree[pos].kind = "line"
    /\ ~file_scanned
    /\ pos' = pos + 1
    /\ UNCHANGED <<pc, tree, root_exists, file_scanned, inst_tags, fdlVars, artifactVars>>

\* scan_directory returns
EndWalk ==
    /\ pc = "scan"
    /\ pos > Len(tree)
    /\ pc' = "mark"
    /\ UNCHANGED <<scanVars, fdlVars, artifactVars>>

\* lines 155-159: the closing loop and the return
ReturnTags ==
    /\ pc = "mark"
    /\ inst_tags' = MarkComplete(inst_tags)
    /\ pc' = "returned"
    /\ UNCHANGED <<tree, root_exists, pos, file_scanned, fdlVars, artifactVars>>

NextScan == StartWalk \/ OpenFile \/ ScanLine \/ SkipLine \/ EndWalk \/ ReturnTags

SpecScan == InitScan /\ [][NextScan]_vars

(***************************************************************************)
(* SpecExtract: extract_fdl_instructions on a feature document.            *)
(***************************************************************************)
InitExtract ==
    /\ pc = "start"
    /\ design_text \in SeqsUpTo(DesignLines, MaxDocLines)
    /\ design_fdl = <<>>
    /\ changes_text = NoChanges
    /\ feature_name = FeatureF1
    /\ fdl_errors = <<>>
    /\ untracked_errors = <<>>
    /\ IdleScan
    /\ IdleArtifact

ExtractFdlInstructions ==
    /\ pc = "start"
    /\ design_fdl' = extract_fdl_instructions(design_text)
    /\ pc' = "extracted"
    /\ UNCHANGED <<scanVars, design_text, changes_text, feature_name, fdl_errors,
                   untracked_errors, artifactVars>>

NextExtract == ExtractFdlInstructions

SpecExtract == InitExtract /\ [][NextExtract]_vars

(***************************************************************************)
(* SpecCoverage: validate_fdl_coverage on a design_fdl and a change log.   *)
(***************************************************************************)
\* fdd-p-feature-f1-flow-x-v2: an ID that the ID of ScopeF1Flow is a prefix of
ScopeF1FlowV2 == ScopeF1Flow \o <<"v2">>

\* fdd--flow-x: a flow whose ID has nothing between "fdd-" and "-flow-"
ScopeNoProject == <<"fdd", "", "flow", "x">>

MentionedIds == {ScopeF1Flow, ScopeF1FlowV2, ScopeF2Algo, ScopeF1Req, ScopeNoProject}

ChangeLogs ==
    {[mentions |-> ms, status |-> <<>>] :
        ms \in SeqsUpTo({Mention(id, q) : id \in MentionedIds, q \in BOOLEAN}, MaxMentions)}

CoverageLines ==
    {ScopeLine(ScopeF1Flow), ScopeLine(ScopeF2Algo), ScopeLine(ScopeF1Req),
     ScopeLine(ScopeNoProject), StepLine("x", "inst-a")}

CoverageFdls ==
    {extract_fdl_instructions(d) : d \in SeqsUpTo(CoverageLines, MaxCoverageLines)}

InitCoverage ==
    /\ pc = "start"
    /\ design_fdl \in CoverageFdls
    /\ changes_text \in ChangeLogs
    /\ design_text = <<>>
    /\ feature_name = FeatureF1
    /\ fdl_errors = <<>>
    /\ untracked_errors = <<>>
    /\ IdleScan
    /\ IdleArtifact

ValidateFdlCoverage ==
    /\ pc = "start"
    /\ fdl_errors' = validate_fdl_coverage(changes_text, design_fdl)
    /\ pc' = "coverage"
    /\ UNCHANGED <<scanVars, design_text, design_fdl, changes_text, feature_name,
                   untracked_errors, artifactVars>>

NextCoverage == ValidateFdlCoverage

SpecCoverage == InitCoverage /\ [][NextCoverage]_vars

(***************************************************************************)
(* SpecImpl: validate_fdl_code_implementation (Design->Code) on a source   *)
(* tree and the design_fdl of a feature document.                          *)
(***************************************************************************)
\* marker lines of one scope: begin, end, and both on one line
ImplTokens ==
    {CodeLine(<<Marker(ScopeF1Flow, i)>>, <<>>) : i \in Insts}
        \cup {CodeLine(<<>>, <<Marker(ScopeF1Flow, i)>>) : i \in Insts}
        \cup {CodeLine(<<Marker(ScopeF1Flow, i)>>, <<Marker(ScopeF1Flow, i)>>) : i \in Insts}

ImplLines ==
    {ScopeLine(ScopeF1Flow), ScopeLine(ScopeF2Algo), StepLine("x", "inst-a"),
     StepLine("x", "inst-b")}

\* a scope with n checked steps, of inst-a and inst-b in turn
LongDocument(n) ==
    <<ScopeLine(ScopeF1Flow)>>
        \o [k \in 1..n |-> StepLine("x", IF k % 2 = 1 THEN "inst-a" ELSE "inst-b")]

\* documents with more instruction occurrences than an examples list holds
LongDocuments ==
    {LongDocument(n) : n \in {ExamplesCap, 2 * ExamplesCap + 1, 2 * ExamplesCap + 2}}

ImplFdls ==
    {extract_fdl_instructions(d) : d \in SeqsUpTo(ImplLines, MaxImplLines) \cup LongDocuments}

InitImpl ==
    /\ pc = "start"
    /\ tree \in SeqsUpTo(ImplTokens, MaxTreeTokens)
    /\ root_exists = TRUE
    /\ design_fdl \in ImplFdls
    /\ pos = 1
    /\ file_scanned = TRUE
    /\ inst_tags = <<>>
    /\ design_text = <<>>
    /\ changes_text = NoChanges
    /\ feature_name = FeatureF1
    /\ fdl_errors = <<>>
    /\ untracked_errors = <<>>
    /\ IdleArtifact

ValidateFdlCodeImplementation ==
    /\ pc = "start"
    /\ fdl_errors' = validate_fdl_code_implementation(root_exists, tree, design_fdl)
    /\ pc' = "implementation"
    /\ UNCHANGED <<scanVars, design_text, design_fdl, changes_text, feature_name,
                   untracked_errors, artifactVars>>

NextImpl == ValidateFdlCodeImplementation

SpecImpl == InitImpl /\ [][NextImpl]_vars

(***************************************************************************)
(* SpecReverse: validate_fdl_code_to_design (Code->Design) on a source     *)
(* tree, the feature directory's name and the feature document.            *)
(***************************************************************************)
ReverseTokens == BeginLines \cup EndLines

ReverseLines == {ScopeLine(ScopeF1Flow), StepLine("x", "inst-a"), StepLine("x", "inst-b")}

\* feature-subfeature-x: a directory name that holds "feature-" twice
FeatureSubfeatureX == <<"feature", "subfeature", "x">>

\* fdd-p-feature-subx-flow-y and fdd-p-feature-subfeature-x-flow-y
ScopeSubxFlow == <<"fdd", "p", "feature", "subx", "flow", "y">>
ScopeSubfeatureXFlow == <<"fdd", "p", "feature", "subfeature", "x", "flow", "y">>

\* a line that holds the begin and the end marker of inst-a under one scope
PairLines ==
    {CodeLine(<<Marker(s, "inst-a")>>, <<Marker(s, "inst-a")>>) :
        s \in {ScopeSubxFlow, ScopeSubfeatureXFlow}}

\* feature-f1, feature-f2, feature-subfeature-x, and a directory that is no
\* feature directory
FeatureNames == {FeatureF1, <<"feature", "f2">>, FeatureSubfeatureX, <<"f1">>}

InitReverse ==
    /\ pc = "start"
    /\ tree \in SeqsUpTo(ReverseTokens \cup PairLines, MaxTreeTokens)
    /\ root_exists = TRUE
    /\ design_text \in SeqsUpTo(ReverseLines, MaxReverseLines)
    /\ feature_name \in FeatureNames
    /\ pos = 1
    /\ file_scanned = TRUE
    /\ inst_tags = <<>>
    /\ design_fdl = <<>>
    /\ changes_text = NoChanges
    /\ fdl_errors = <<>>
    /\ untracked_errors = <<>>
    /\ IdleArtifact

ValidateFdlCodeToDesign ==
    /\ pc = "start"
    /\ untracked_errors' =
           validate_fdl_code_to_design(root_exists, tree, feature_name, design_text)
    /\ pc' = "reverse"
    /\ UNCHANGED <<scanVars, design_text, design_fdl, changes_text, feature_name,
                   fdl_errors, artifactVars>>

NextReverse == ValidateFdlCodeToDesign

SpecReverse == InitReverse /\ [][NextReverse]_vars

(***************************************************************************)
(* SpecReconcile: both reconciliations on one feature document and one     *)
(* source tree: the document is extracted, Design->Code runs on the        *)
(* extracted design_fdl and Code->Design on the document.                  *)
(***************************************************************************)
\* begin lines, end lines, and lines that hold the whole pair
ReconcileTokens ==
    ReverseTokens \cup {CodeLine(<<Marker(ScopeF1Flow, i)>>, <<Marker(ScopeF1Flow, i)>>) : i \in Insts}

InitReconcile ==
    /\ pc = "start"
    /\ tree \in SeqsUpTo(ReconcileTokens, MaxTreeTokens)
    /\ root_exists = TRUE
    /\ design_text \in SeqsUpTo(ReverseLines, MaxReverseLines)
    /\ feature_name = FeatureF1
    /\ pos = 1
    /\ file_scanned = TRUE
    /\ inst_tags = <<>>
    /\ design_fdl = <<>>
    /\ changes_text = NoChanges
    /\ fdl_errors = <<>>
    /\ untracked_errors = <<>>
    /\ IdleArtifact

ImplementationOfExtracted ==
    /\ pc = "extracted"
    /\ fdl_errors' = validate_fdl_code_implementation(root_exists, tree, design_fdl)
    /\ pc' = "implementation"
    /\ UNCHANGED <<scanVars, design_text, design_fdl, changes_text, feature_name,
                   untracked_errors, artifactVars>>

CodeToDesignOfDocument ==
    /\ pc = "implementation"
    /\ untracked_errors' =
           validate_fdl_code_to_design(root_exists, tree, feature_name, design_text)
    /\ pc' = "reconciled"
    /\ UNCHANGED <<scanVars, design_text, design_fdl, changes_text, feature_name,
                   fdl_errors, artifactVars>>

NextReconcile ==
    \/ ExtractFdlInstructions
    \/ ImplementationOfExtracted
    \/ CodeToDesignOfDocument

SpecReconcile == InitReconcile /\ [][NextReconcile]_vars

(***************************************************************************)
(* SpecPipeline: validate_fdl_completion on a change log and the           *)
(* design_fdl that extract_fdl_instructions returns for a feature document.*)
(***************************************************************************)
PipelineLines ==
    {ScopeLine(ScopeF1Flow), StepLine("x", "inst-a"), StepLine("X", "inst-b"),
     StepLine(" ", "inst-b")}

InitPipeline ==
    /\ pc = "start"
    /\ design_text \in SeqsUpTo(PipelineLines, MaxDocLines)
    /\ design_fdl = <<>>
    /\ changes_text \in {[mentions |-> <<>>, status |-> st] :
                            st \in {<<>>} \cup {<<g>> : g \in StatusGroups}}
    /\ feature_name = FeatureF1
    /\ fdl_errors = <<>>
    /\ untracked_errors = <<>>
    /\ IdleScan
    /\ IdleArtifact

CompletionOfExtracted ==
    /\ pc = "extracted"
    /\ fdl_errors' = validate_fdl_completion(changes_text, design_fdl)
    /\ pc' = "completion"
    /\ UNCHANGED <<scanVars, design_text, design_fdl, changes_text, feature_name,
                   untracked_errors, artifactVars>>

NextPipeline ==
    \/ ExtractFdlInstructions
    \/ CompletionOfExtracted

SpecPipeline == InitPipeline /\ [][NextPipeline]_vars

(***************************************************************************)
(* SpecCompletion: validate_fdl_completion on a change log and the         *)
(* design_fdl of a feature document, beside the source tree of the feature.*)
(***************************************************************************)
StatusLogs == {[mentions |-> <<>>, status |-> st] : st \in {<<>>} \cup {<<g>> : g \in StatusGroups}}

CompletionFdls ==
    {extract_fdl_instructions(d) : d \in SeqsUpTo(ReverseLines, MaxReverseLines)}

\* an instruction with its completion flag: the ID when set, "" when not
FlaggedSteps == {<<i, f>> : i \in Insts, f \in {"set", ""}}

FlaggedEntry(scope, steps) ==
    [scope |-> scope,
     instructions |-> [k \in 1..Len(steps) |-> steps[k][1]],
     completed |-> [k \in 1..Len(steps) |->
                       IF steps[k][2] = "" THEN "" ELSE steps[k][1]]]

\* design_fdl values with flags of their own: one scope, or two
FlaggedFdls ==
    {<<FlaggedEntry(ScopeF1Flow, s)>> \o rest :
        s \in SeqsUpTo(FlaggedSteps, MaxFlaggedSteps),
        rest \in {<<>>} \cup {<<FlaggedEntry(ScopeF2Algo, <<s2>>)>> : s2 \in FlaggedSteps}}

\* source trees beside them: no marker, a complete pair, a begin marker
FlaggedTrees ==
    {<<>>,
     <<CodeLine(<<Marker(ScopeF1Flow, "inst-a")>>, <<Marker(ScopeF1Flow, "inst-a")>>)>>,
     <<CodeLine(<<Marker(ScopeF1Flow, "inst-a")>>, <<>>)>>}

InitCompletion ==
    /\ pc = "start"
    /\ \/ /\ tree \in SeqsUpTo(ImplTokens, MaxTreeTokens)
          /\ design_fdl \in CompletionFdls
       \/ /\ tree \in FlaggedTrees
          /\ design_fdl \in FlaggedFdls
    /\ root_exists = TRUE
    /\ changes_text \in StatusLogs
    /\ pos = 1
    /\ file_scanned = TRUE
    /\ inst_tags = <<>>
    /\ design_text = <<>>
    /\ feature_name = FeatureF1
    /\ fdl_errors = <<>>
    /\ untracked_errors = <<>>
    /\ IdleArtifact

ValidateFdlCompletion ==
    /\ pc = "start"
    /\ fdl_errors' = validate_fdl_completion(changes_text, design_fdl)
    /\ pc' = "completion"
    /\ UNCHANGED <<scanVars, design_text, design_fdl, changes_text, feature_name,
                   untracked_errors, artifactVars>>

NextCompletion == ValidateFdlCompletion

SpecCompletion == InitCompletion /\ [][NextCompletion]_vars

(***************************************************************************)
(* SpecGeneric: validate_generic_sections on an artifact and the required  *)
(* sections of its requirements file.                                      *)
(***************************************************************************)
GenericLines ==
    {SectionLine(<<c>>, FALSE) : c \in Range(SectionLetters)}
        \cup {SectionLine(<<"A">>, TRUE), SectionLine(<<>>, TRUE), SectionLine(<<>>, FALSE)}

\* the requirements files: unparsable, two sections, three sections
RequiredChoices ==
    {<<>>, <<Required("A"), Required("B")>>, <<Required("A"), Required("B"), Required("C")>>}

InitGeneric ==
    /\ pc = "generic"
    /\ artifact_text \in SeqsUpTo(GenericLines, MaxSectionLines)
    /\ required_sections \in RequiredChoices
    /\ business_text = <<>>
    /\ sibling_text = <<>>
    /\ skip_fs_checks = TRUE
    /\ result = <<>>
    /\ IdleScan
    /\ IdleFdl

ValidateGenericSections ==
    /\ pc = "generic"
    /\ result' = validate_generic_sections(artifact_text, required_sections)
    /\ pc' = "generic returned"
    /\ UNCHANGED <<scanVars, fdlVars, artifact_text, required_sections, business_text,
                   sibling_text, skip_fs_checks>>

NextGeneric == ValidateGenericSections

SpecGeneric == InitGeneric /\ [][NextGeneric]_vars

(***************************************************************************)
(* SpecDesign: validate_overall_design on a DESIGN.md and its siblings.    *)
(* The documents of the main family hold the three top-level sections, at  *)
(* most one line of references ahead of the requirements, and requirement  *)
(* blocks of an ID line and a line of references.                          *)
(***************************************************************************)
HeadingOfDesign(c) == [ProseOfDesign EXCEPT !.heading = <<c>>]

ReqIdLine(r) == [ProseOfDesign EXCEPT !.id_label = TRUE, !.req_ids = <<r>>]

RefLine(caps, actors) == [ProseOfDesign EXCEPT !.caps = caps, !.actors = actors]

FullHead == <<HeadingOfDesign("A"), HeadingOfDesign("B"), HeadingOfDesign("C")>>

BlockRefs == (SUBSET Range(CapabilityIds)) \X (SUBSET Range(ActorIds))

BlocksOf(refs) ==
    ConcatAll([k \in 1..Len(refs) |-> <<ReqIdLine(ReqId(k)), RefLine(refs[k][1], refs[k][2])>>])

BlockDesigns ==
    {FullHead \o ahead \o BlocksOf(refs) :
        ahead \in {<<>>, <<RefLine({"cap-1"}, {})>>},
        refs \in SeqsUpTo(BlockRefs, MaxReqBlocks)}

OneBlock == BlocksOf(<<<<{"cap-1"}, {"actor-a"}>>>>)

SubsectionLine(n) == [ProseOfDesign EXCEPT !.c_sub = <<n>>]

\* documents with a missing section, a placeholder, subsections, use case,
\* ADR and principle references
OtherDesigns ==
    {<<HeadingOfDesign("A"), HeadingOfDesign("B")>> \o OneBlock,
     FullHead \o <<[ProseOfDesign EXCEPT !.placeholder = TRUE]>> \o OneBlock,
     FullHead \o <<SubsectionLine("1"), SubsectionLine("3")>> \o OneBlock,
     FullHead \o [k \in 1..Len(ExpectedSubsections) |-> SubsectionLine(ExpectedSubsections[k])]
         \o OneBlock,
     FullHead \o OneBlock \o <<[ProseOfDesign EXCEPT !.usecases = {"uc-1"}]>>,
     FullHead \o OneBlock \o <<[ProseOfDesign EXCEPT !.adr_ids = {"adr-x"}]>>,
     FullHead \o <<[ProseOfDesign EXCEPT !.adr_nums = {1}]>> \o OneBlock,
     FullHead \o OneBlock \o <<[ProseOfDesign EXCEPT !.principles = {"principle-p"}]>>}

CapabilitiesHeading == BusinessLine(TRUE, TRUE, <<>>, {}, {})

CapabilityLine(c, actors) == BusinessLine(FALSE, FALSE, <<c>>, actors, {})

ActorLine(a) == BusinessLine(FALSE, FALSE, <<>>, {a}, {})

\* the business models: each capability with its own actor, actors listed
\* under the capability, a capability without actors, one capability, no
\* capability section, a capability after the section's end, a capability
\* named again, the empty document, a use case
BusinessTexts ==
    {<<CapabilitiesHeading, CapabilityLine("cap-1", {"actor-a"}),
       CapabilityLine("cap-2", {"actor-b"})>>,
     <<CapabilitiesHeading, CapabilityLine("cap-1", {}), ActorLine("actor-a"),
       ActorLine("actor-b")>>,
     <<CapabilitiesHeading, CapabilityLine("cap-1", {}), CapabilityLine("cap-2", {"actor-b"})>>,
     <<CapabilitiesHeading, CapabilityLine("cap-1", {"actor-a"})>>,
     <<ActorLine("actor-a"), ActorLine("actor-b")>>,
     <<CapabilitiesHeading, CapabilityLine("cap-1", {"actor-a"}),
       BusinessLine(FALSE, TRUE, <<>>, {}, {}), CapabilityLine("cap-2", {"actor-b"})>>,
     <<CapabilitiesHeading, CapabilityLine("cap-1", {"actor-a"}), CapabilityLine("cap-1", {})>>,
     <<>>,
     <<CapabilitiesHeading, CapabilityLine("cap-1", {"actor-a"}),
       BusinessLine(FALSE, FALSE, <<>>, {}, {"uc-1"})>>}

AdrHeadingLine(n) ==
    [ProseOfAdr EXCEPT !.adr_heading = <<[ref |-> <<"ADR", n>>, num |-> n, title |-> "Title"]>>,
                       !.h2 = TRUE]

\* the indexes: no ADR, an ADR with its ID, an ADR without
IndexTexts ==
    {<<>>,
     <<AdrHeadingLine(1), [ProseOfAdr EXCEPT !.adr_ids = <<"adr-x">>]>>,
     <<AdrHeadingLine(1)>>}

\* one requirement block with use case and ADR references
ReferringDesigns ==
    {FullHead \o <<ReqIdLine(ReqId(1)),
                   [RefLine({"cap-1"}, {"actor-a"}) EXCEPT !.usecases = ucs, !.adr_ids = adrs]>> :
        ucs \in SUBSET Range(UsecaseIds), adrs \in SUBSET Range(AdrIds)}

InitDesign ==
    /\ pc = "design"
    /\ required_sections = <<>>
    /\ result = <<>>
    /\ \/ /\ artifact_text \in ReferringDesigns
          /\ business_text \in {Loaded(t) : t \in BusinessTexts}
          /\ sibling_text \in {Loaded(t) : t \in IndexTexts}
          /\ skip_fs_checks = FALSE
       \/ /\ artifact_text \in BlockDesigns
          /\ business_text \in {Loaded(t) : t \in BusinessTexts}
          /\ sibling_text = Loaded(<<>>)
          /\ skip_fs_checks = FALSE
       \/ /\ artifact_text \in OtherDesigns
          /\ business_text \in {Loaded(t) : t \in BusinessTexts} \cup {LoadError("not found")}
          /\ sibling_text \in {Loaded(t) : t \in IndexTexts} \cup {LoadError("not found")}
          /\ skip_fs_checks \in BOOLEAN
    /\ IdleScan
    /\ IdleFdl

ValidateOverallDesign ==
    /\ pc = "design"
    /\ result' = validate_overall_design(artifact_text, skip_fs_checks, business_text,
                                         sibling_text)
    /\ pc' = IF Bound("find_present_section_ids") THEN "design returned"
             ELSE "design raised"
    /\ UNCHANGED <<scanVars, fdlVars, artifact_text, required_sections, business_text,
                   sibling_text, skip_fs_checks>>

NextDesign == ValidateOverallDesign

SpecDesign == InitDesign /\ [][NextDesign]_vars

(***************************************************************************)
(* SpecArtifacts: the three artifact validators, each on its documents.    *)
(* The ADR.md documents are the lines kept of one clean record, with or    *)
(* without a second record and a placeholder.                              *)
(***************************************************************************)
SectionOfAdr(sec) == [ProseOfAdr EXCEPT !.sections = {sec}]

CleanAdr ==
    <<AdrHeadingLine(1),
      [ProseOfAdr EXCEPT !.date = <<"2024-01-01">>],
      [ProseOfAdr EXCEPT !.status = <<"Accepted">>]>>
    \o [k \in 1..Len(AdrSections) |-> SectionOfAdr(AdrSections[k])]
    \o <<[ProseOfAdr EXCEPT !.actors = <<"actor-a">>]>>

Keep(text, kept) ==
    LET idx == SelectSeq([k \in 1..Len(text) |-> k], LAMBDA k : k \in kept)
    IN  [n \in 1..Len(idx) |-> text[idx[n]]]

AdrTexts ==
    {Keep(CleanAdr, {1} \cup kept) \o tail :
        kept \in SUBSET (2..Len(CleanAdr)),
        tail \in {<<>>, <<[ProseOfAdr EXCEPT !.placeholder = TRUE]>>,
                  <<AdrHeadingLine(2), [ProseOfAdr EXCEPT !.req_ids = <<ReqId(2)>>]>>}}

InitAdr ==
    /\ pc = "adr"
    /\ required_sections = <<>>
    /\ result = <<>>
    /\ artifact_text \in AdrTexts
    /\ business_text \in {Loaded(<<ActorLine("actor-a")>>), Loaded(<<ActorLine("actor-b")>>),
                          LoadError("not found")}
    /\ sibling_text \in {Loaded(OneBlock), LoadError("not found")}
    /\ skip_fs_checks \in BOOLEAN
    /\ IdleScan
    /\ IdleFdl

ValidateAdr ==
    /\ pc = "adr"
    /\ result' = validate_adr(artifact_text, skip_fs_checks, business_text, sibling_text)
    /\ pc' = IF Bound("_parse_adr_index") THEN "adr returned" ELSE "adr raised"
    /\ UNCHANGED <<scanVars, fdlVars, artifact_text, required_sections, business_text,
                   sibling_text, skip_fs_checks>>

InitArtifacts == InitGeneric \/ InitDesign \/ InitAdr

NextArtifacts == ValidateGenericSections \/ ValidateOverallDesign \/ ValidateAdr

SpecArtifacts == InitArtifacts /\ [][NextArtifacts]_vars

(***************************************************************************)
(* SpecCommon: common_checks on an artifact, with and without the checks   *)
(* of the file system.                                                     *)
(***************************************************************************)
LinkLine(targets) == [ProseOfCommon EXCEPT !.links = targets]

IdLine(bare, ids, checkbox) ==
    [ProseOfCommon EXCEPT !.id_label = TRUE, !.id_start = TRUE, !.checkbox = checkbox,
                          !.id_val = <<[bare |-> bare, ids |-> ids]>>]

CommonLines ==
    {LinkLine(<<Target("absolute", e)>>) : e \in BOOLEAN}
        \cup {LinkLine(<<Target("relative", e)>>) : e \in BOOLEAN}
        \cup {LinkLine(<<Target("absolute", FALSE), Target("relative", FALSE)>>),
              LinkLine(<<Target("anchor", FALSE), Target("url", FALSE), Target("blank", FALSE)>>),
              [ProseOfCommon EXCEPT !.md_heading = TRUE],
              [ProseOfCommon EXCEPT !.md_heading = TRUE, !.section_form = TRUE],
              [ProseOfCommon EXCEPT !.blank = TRUE],
              IdLine(FALSE, <<"fdd-a">>, FALSE),
              IdLine(TRUE, <<>>, FALSE),
              IdLine(TRUE, <<>>, TRUE),
              [ProseOfCommon EXCEPT !.comment_words = <<"TODO">>, !.braces = <<"{name}">>],
              [ProseOfCommon EXCEPT !.notations = <<"@/">>]}

InitCommon ==
    /\ pc = "common"
    /\ artifact_text \in SeqsUpTo(CommonLines, MaxCommonLines)
    /\ skip_fs_checks \in BOOLEAN
    /\ required_sections = <<>>
    /\ business_text = <<>>
    /\ sibling_text = <<>>
    /\ result = <<>>
    /\ IdleScan
    /\ IdleFdl

CommonChecks ==
    /\ pc = "common"
    /\ result' = common_checks(artifact_text, skip_fs_checks)
    /\ pc' = "common returned"
    /\ UNCHANGED <<scanVars, fdlVars, artifact_text, required_sections, business_text,
                   sibling_text, skip_fs_checks>>

NextCommon == CommonChecks

SpecCommon == InitCommon /\ [][NextCommon]_vars

(***************************************************************************)
(* SpecAdr: validate_adr on documents of several ADRs.  An ADR is its      *)
(* heading and the section headings its body holds; two ADRs may share a   *)
(* reference.                                                              *)
(***************************************************************************)
\* the bodies: every section, none, and every section but one
SectionChoices ==
    {Range(AdrSections), {}} \cup {Range(AdrSections) \ {sec} : sec \in Range(AdrSections)}

AdrOf(n, held) ==
    <<AdrHeadingLine(n)>>
        \o SelectSeq([k \in 1..Len(AdrSections) |-> SectionOfAdr(AdrSections[k])],
                     LAMBDA l : l.sections \subseteq held)

AdrChoices == {AdrOf(n, held) : n \in {1, 2}, held \in SectionChoices}

EntryTexts ==
    {ahead \o ConcatAll(adrs) :
        ahead \in {<<>>, <<SectionOfAdr(RelatedSection)>>},
        adrs \in SeqsUpTo(AdrChoices, MaxAdrEntries)}

InitEntries ==
    /\ pc = "adr"
    /\ required_sections = <<>>
    /\ result = <<>>
    /\ artifact_text \in EntryTexts
    /\ business_text = LoadError("not found")
    /\ sibling_text = LoadError("not found")
    /\ skip_fs_checks = TRUE
    /\ IdleScan
    /\ IdleFdl

NextAdr == ValidateAdr

SpecAdr == InitEntries /\ [][NextAdr]_vars

(***************************************************************************)
(* validate_feature_design: the nested _check_section_fdl.  A line of a    *)
(* section body holds whether its stripped text starts with a fence and    *)
(* whether it contains the bold WHEN keyword.  sections is the dict the    *)
(* section split returns, a sequence of [letter, lines] entries.  The loop *)
(* body is modelled as far as the source goes: the fence test and the WHEN *)
(* test.                                                                    *)
(***************************************************************************)
FeatureLetters == <<"A", "B", "C", "D", "E", "F", "G">>

BodyLine(fence, when, stripped) == [fence |-> fence, when |-> when, text |-> stripped]

\* sections.get(section_letter, [])
SectionBody(sections, section_letter) ==
    IF \E k \in 1..Len(sections) : sections[k].letter = section_letter
    THEN sections[CHOOSE k \in 1..Len(sections) : sections[k].letter = section_letter].lines
    ELSE <<>>

\* the message is no f-string: the braces stand in it as written
CodeBlockMessage == "Code blocks are not allowed in Section {section_letter}"

WhenMessage == "**WHEN** is only allowed in state machines (Section D)"

CodeBlockError(idx, line) ==
    [type |-> "fdl", message |-> CodeBlockMessage, line |-> idx, text |-> line.text]

WhenErrors(section_letter, idx, line) ==
    IF line.when /\ section_letter \in {"B", "C"}
    THEN <<[type |-> "fdl", message |-> WhenMessage, section |-> section_letter,
            line |-> idx, text |-> line.text]>>
    ELSE <<>>

RECURSIVE CheckLinesFrom(_, _, _, _)
CheckLinesFrom(lines, section_letter, idx, in_code) ==
    IF idx > Len(lines) THEN <<>>
    ELSE IF lines[idx].fence
         THEN <<CodeBlockError(idx, lines[idx])>>
                  \o CheckLinesFrom(lines, section_letter, idx + 1, ~in_code)
         ELSE IF in_code
              THEN CheckLinesFrom(lines, section_letter, idx + 1, in_code)
              ELSE WhenErrors(section_letter, idx, lines[idx])
                       \o CheckLinesFrom(lines, section_letter, idx + 1, in_code)

\* the errors the call appends
check_section_fdl(sections, section_letter) ==
    CheckLinesFrom(SectionBody(sections, section_letter), section_letter, 1, FALSE)

(***************************************************************************)
(* SpecSection: one call of _check_section_fdl on the split document.      *)
(***************************************************************************)
BodyLines ==
    {BodyLine(TRUE, FALSE, "(fence)"),
     BodyLine(TRUE, TRUE, "(fence) **WHEN**"),
     BodyLine(FALSE, TRUE, "**WHEN** x"),
     BodyLine(FALSE, FALSE, "x")}

SectionDicts ==
    {<<>>} \cup {<<[letter |-> l, lines |-> b]>> :
                    l \in Range(FeatureLetters), b \in SeqsUpTo(BodyLines, MaxBodyLines)}

InitSection ==
    /\ pc = "section"
    /\ required_sections = <<>>
    /\ result = <<>>
    /\ artifact_text \in SectionDicts
    /\ business_text = <<>>
    /\ sibling_text = <<>>
    /\ skip_fs_checks = TRUE
    /\ IdleScan
    /\ IdleFdl

CheckSectionFdl ==
    /\ pc = "section"
    /\ \E section_letter \in Range(FeatureLetters) :
           result' = [section_letter |-> section_letter,
                      errors |-> check_section_fdl(artifact_text, section_letter)]
    /\ pc' = "section checked"
    /\ UNCHANGED <<scanVars, fdlVars, artifact_text, required_sections, business_text,
                   sibling_text, skip_fs_checks>>

NextSection == CheckSectionFdl

SpecSection == InitSection /\ [][NextSection]_vars

(***************************************************************************)
(* SpecBusiness: parse_business_model on a BUSINESS.md.                    *)
(***************************************************************************)
BusinessLines ==
    {CapabilitiesHeading,
     BusinessLine(TRUE, TRUE, <<"cap-2">>, {"actor-b"}, {}),
     BusinessLine(FALSE, TRUE, <<>>, {}, {}),
     BusinessLine(FALSE, TRUE, <<"cap-2">>, {"actor-b"}, {}),
     CapabilityLine("cap-1", {"actor-a"}),
     CapabilityLine("cap-1", {}),
     CapabilityLine("cap-2", {"actor-b"}),
     BusinessLine(FALSE, FALSE, <<"cap-1", "cap-2">>, {"actor-a"}, {}),
     ActorLine("actor-a"),
     ActorLine("actor-b"),
     BusinessLine(FALSE, FALSE, <<>>, {}, {"uc-1"})}

InitBusiness ==
    /\ pc = "business"
    /\ required_sections = <<>>
    /\ result = <<>>
    /\ artifact_text \in SeqsUpTo(BusinessLines, MaxBusinessLines)
    /\ business_text = <<>>
    /\ sibling_text = <<>>
    /\ skip_fs_checks = TRUE
    /\ IdleScan
    /\ IdleFdl

ParseBusinessModel ==
    /\ pc = "business"
    /\ result' = parse_business_model(artifact_text)
    /\ pc' = "business returned"
    /\ UNCHANGED <<scanVars, fdlVars, artifact_text, required_sections, business_text,
                   sibling_text, skip_fs_checks>>

NextBusiness == ParseBusinessModel

SpecBusiness == InitBusiness /\ [][NextBusiness]_vars

(***************************************************************************)
(* SpecIndex: parse_adr_index on an ADR.md.  A heading's title is free     *)
(* text, so a heading line may hold a date, a status and an ADR ID.        *)
(***************************************************************************)
DateLine(d) == [ProseOfAdr EXCEPT !.date = <<d>>]

IndexLines ==
    {AdrHeadingLine(1), AdrHeadingLine(2),
     [AdrHeadingLine(2) EXCEPT !.date = <<"2024-02-02">>, !.status = <<"Proposed">>,
                               !.adr_ids = <<"adr-y">>],
     [ProseOfAdr EXCEPT !.h2 = TRUE],
     DateLine("2024-01-01"),
     [ProseOfAdr EXCEPT !.status = <<"Accepted">>],
     [ProseOfAdr EXCEPT !.adr_ids = <<"adr-x">>],
     ProseOfAdr}

\* a heading, n lines of prose and a date: inside the window or past it
FarDate(n) == <<AdrHeadingLine(1)>> \o [k \in 1..n |-> ProseOfAdr] \o <<DateLine("2024-01-01")>>

IndexDocuments ==
    SeqsUpTo(IndexLines, MaxIndexLines)
        \cup {FarDate(n) : n \in {LookaheadWindow - 2, LookaheadWindow - 1}}

InitIndex ==
    /\ pc = "index"
    /\ required_sections = <<>>
    /\ result = <<>>
    /\ artifact_text \in IndexDocuments
    /\ business_text = <<>>
    /\ sibling_text = <<>>
    /\ skip_fs_checks = TRUE
    /\ IdleScan
    /\ IdleFdl

ParseAdrIndex ==
    /\ pc = "index"
    /\ result' = parse_adr_index(artifact_text)
    /\ pc' = "index returned"
    /\ UNCHANGED <<scanVars, fdlVars, artifact_text, required_sections, business_text,
                   sibling_text, skip_fs_checks>>

NextIndex == ParseAdrIndex

SpecIndex == InitIndex /\ [][NextIndex]_vars

(***************************************************************************)
(* C5.  What the scan observed, read off the tree without scanning it: a   *)
(* line is read when the roots exist and the file it stands in is read.    *)
(***************************************************************************)
ReadAt(t, k) ==
    /\ t[k].kind = "line"
    /\ LET opened == {j \in 1..(k - 1) : t[j].kind = "file"}
       IN  opened = {} \/ t[MaxOf(opened)].scanned

ObservedBegin(exists, t) ==
    IF exists
    THEN {t[k].begin[1].inst : k \in {j \in 1..Len(t) : ReadAt(t, j) /\ t[j].begin # <<>>}}
    ELSE {}

ObservedEnd(exists, t) ==
    IF exists
    THEN {t[k].end[1].inst : k \in {j \in 1..Len(t) : ReadAt(t, j) /\ t[j].end # <<>>}}
    ELSE {}

IsComplete(tags, i) == \E k \in 1..Len(tags) : tags[k].inst = i /\ tags[k].complete

\* C5: after extract_inst_tags_from_code returns, an instruction ID has a record
\* exactly when a begin or an end marker of it was observed, it has one record
\* only, and the record is complete exactly when at least one begin marker and
\* at least one end marker of it were observed anywhere in the scan, in
\* whatever order and in whatever files the marker lines stand.
C5_CompleteIffBeginAndEndObserved ==
    pc = "returned" =>
        \A i \in Insts :
            /\ IsComplete(inst_tags, i)
                   <=> (i \in ObservedBegin(root_exists, tree)
                            /\ i \in ObservedEnd(root_exists, tree))
            /\ (TagIndex(inst_tags, i) # 0)
                   <=> (i \in ObservedBegin(root_exists, tree)
                            \cup ObservedEnd(root_exists, tree))
            /\ Cardinality({k \in 1..Len(inst_tags) : inst_tags[k].inst = i}) <= 1

\* an end marker in one file, the begin marker of the same instruction in a
\* later file, and the instruction complete
C5_Witness_EndBeforeBeginAcrossFiles ==
    /\ pc = "returned"
    /\ \E i \in Insts :
           /\ IsComplete(inst_tags, i)
           /\ \E ke, kf, kb \in 1..Len(tree) :
                  /\ ke < kf /\ kf < kb
                  /\ tree[kf].kind = "file"
                  /\ tree[ke].begin = <<>> /\ tree[ke].end # <<>>
                  /\ tree[ke].end[1].inst = i
                  /\ tree[kb].begin # <<>> /\ tree[kb].end = <<>>
                  /\ tree[kb].begin[1].inst = i

(***************************************************************************)
(* C6.  The scope a line stands under, read backwards from the line.       *)
(***************************************************************************)
\* the line declares a scope: it matches FDL_SCOPE_ID_RE and names the scope
\* by its backtick-quoted fdd- ID (the form of the comment of line 31); a
\* line of that pattern that holds no such ID names no scope
Declares(line) == line.kind = "scope" /\ line.scope # <<>>

OwnerOf(text, k) ==
    LET decls == {j \in 1..k : Declares(text[j])}
    IN  IF decls = {} THEN <<>> ELSE text[MaxOf(decls)].scope

CheckedStepUnder(text, s, k) ==
    /\ text[k].kind = "step"
    /\ text[k].mark \in CheckedMarks
    /\ OwnerOf(text, k) = <<s>>

RECURSIVE CheckedUnder(_, _, _)
CheckedUnder(text, s, k) ==
    IF k > Len(text) THEN <<>>
    ELSE (IF CheckedStepUnder(text, s, k) THEN text[k].inst ELSE <<>>)
         \o CheckedUnder(text, s, k + 1)

RECURSIVE FirstDeclarations(_, _)
FirstDeclarations(text, k) ==
    IF k = 0 THEN <<>>
    ELSE LET before == FirstDeclarations(text, k - 1)
         IN  IF Declares(text[k]) /\ text[k].scope[1] \notin Range(before)
             THEN Append(before, text[k].scope[1])
             ELSE before

\* C6: extract_fdl_instructions returns one entry per declared scope, in the
\* order of the first declarations, and the entry of scope S holds exactly the
\* instruction IDs of the checked step lines that stand after a declaration
\* line of S and before the next scope declaration, in document order with
\* duplicates kept: N such lines give N IDs, unchecked steps give none.  A
\* declaration is a line that names its scope (Declares).
C6_ExtractReturnsCheckedStepsPerScope ==
    pc = "extracted" =>
        /\ [k \in 1..Len(design_fdl) |-> design_fdl[k].scope]
               = FirstDeclarations(design_text, Len(design_text))
        /\ \A k \in 1..Len(design_fdl) :
               /\ design_fdl[k].instructions
                      = CheckedUnder(design_text, design_fdl[k].scope, 1)
               /\ Len(design_fdl[k].instructions)
                      = Cardinality({j \in 1..Len(design_text) :
                                        CheckedStepUnder(design_text, design_fdl[k].scope, j)})

\* a scope with the same instruction ID checked twice and an unchecked step
\* between the two
C6_Witness_DuplicateKeptUncheckedDropped ==
    /\ pc = "extracted"
    /\ \E k \in 1..Len(design_fdl) :
           /\ Len(design_fdl[k].instructions) = 2
           /\ design_fdl[k].instructions[1] = design_fdl[k].instructions[2]
    /\ \E j \in 1..Len(design_text) :
           /\ design_text[j].kind = "step"
           /\ design_text[j].mark = " "
           /\ OwnerOf(design_text, j) # <<>>

(***************************************************************************)
(* C7.                                                                     *)
(***************************************************************************)
\* the ID occurs in the text of the change log, quoted or not, alone or as a
\* part of a longer ID
AppearsVerbatim(id, text) == \E j \in 1..Len(text.mentions) : SegsIn(id, text.mentions[j].id)

\* the text holds the ID between backticks, and the ID is of a type of scope
QuotedAsTypedScope(id, text) ==
    /\ HasScopeType(id)
    /\ \E j \in 1..Len(text.mentions) : text.mentions[j].quoted /\ text.mentions[j].id = id

ReportedScopes == {fdl_errors[j].scope_id : j \in 1..Len(fdl_errors)}

FdlKeys == {design_fdl[k].scope : k \in 1..Len(design_fdl)}

\* C7 as stated: a scope ID of design_fdl is reported if and only if it does
\* not appear verbatim in the change-log text, whatever its type and quoting.
C7_ReportedIffNotVerbatim ==
    pc = "coverage" =>
        \A id \in FdlKeys : id \in ReportedScopes <=> ~AppearsVerbatim(id, changes_text)

\* C7 as amended: a scope ID of design_fdl is reported, by one fdl_coverage
\* issue of its own, if and only if the change log holds no backtick-quoted
\* token that is exactly this ID and has the form
\* fdd-<X>-(flow|algo|state|test)-<Y>, X and Y each one or more characters of
\* a-z, 0-9 and the dash; nothing else is reported.  fdd--flow-x, whose X
\* would be empty, is reported wherever the change log holds it.
C7_ReportedIffNotQuotedTypedScope ==
    pc = "coverage" =>
        /\ \A id \in FdlKeys :
               id \in ReportedScopes <=> ~QuotedAsTypedScope(id, changes_text)
        /\ ScopeNoProject \in FdlKeys => ScopeNoProject \in ReportedScopes
        /\ ReportedScopes \subseteq FdlKeys
        /\ Len(fdl_errors) = Cardinality(ReportedScopes)
        /\ \A j \in 1..Len(fdl_errors) : fdl_errors[j].type = "fdl_coverage"

\* a flow scope that the change log names without backticks, and that is
\* reported, beside a scope that is quoted and is not
C7_Witness_UnquotedMentionReported ==
    /\ pc = "coverage"
    /\ ScopeF1Flow \in FdlKeys
    /\ ScopeF1Flow \in ReportedScopes
    /\ \E j \in 1..Len(changes_text.mentions) :
           changes_text.mentions[j] = Mention(ScopeF1Flow, FALSE)
    /\ ScopeF2Algo \in FdlKeys
    /\ ScopeF2Algo \notin ReportedScopes

(***************************************************************************)
(* C8.                                                                     *)
(***************************************************************************)
\* the places (entry, index) of the instruction occurrences of a design_fdl
Places(fdl) ==
    LET longest == MaxOf({Len(fdl[n].instructions) : n \in 1..Len(fdl)} \cup {0})
    IN  {p \in (1..Len(fdl)) \X (1..longest) : p[2] <= Len(fdl[p[1]].instructions)}

InstAt(fdl, p) == fdl[p[1]].instructions[p[2]]

HasBegin(i) == i \in ObservedBegin(root_exists, tree)

HasEnd(i) == i \in ObservedEnd(root_exists, tree)

MissingPlaces == {p \in Places(design_fdl) : ~HasBegin(InstAt(design_fdl, p)) /\ ~HasEnd(InstAt(design_fdl, p))}

HalfPlaces == {p \in Places(design_fdl) : HasBegin(InstAt(design_fdl, p)) # HasEnd(InstAt(design_fdl, p))}

ErrorsOfType(errs, t) == SelectSeq(errs, LAMBDA e : e.type = t)

\* C8: validate_fdl_code_implementation reports the occurrences whose
\* instruction has no marker as missing and those with one half of the pair as
\* incomplete, with the reason naming the absent half; an instruction with a
\* complete pair is in no report; a report's count is the number of offending
\* occurrences and its examples are at most ExamplesCap of them.
C8_DesignToCodeReports ==
    pc = "implementation" =>
        LET missing == ErrorsOfType(fdl_errors, "fdl_code_missing")
            incomplete == ErrorsOfType(fdl_errors, "fdl_code_incomplete")
        IN  /\ Len(missing) = (IF MissingPlaces = {} THEN 0 ELSE 1)
            /\ Len(incomplete) = (IF HalfPlaces = {} THEN 0 ELSE 1)
            /\ Len(fdl_errors) = Len(missing) + Len(incomplete)
            /\ \A n \in 1..Len(missing) :
                   /\ missing[n].missing_count = Cardinality(MissingPlaces)
                   /\ Len(missing[n].examples) = Min(Cardinality(MissingPlaces), ExamplesCap)
                   /\ \A x \in Range(missing[n].examples) :
                          \E p \in MissingPlaces :
                              /\ x.instruction = InstAt(design_fdl, p)
                              /\ x.scope = design_fdl[p[1]].scope
            /\ \A n \in 1..Len(incomplete) :
                   /\ incomplete[n].incomplete_count = Cardinality(HalfPlaces)
                   /\ Len(incomplete[n].examples) = Min(Cardinality(HalfPlaces), ExamplesCap)
                   /\ \A x \in Range(incomplete[n].examples) :
                          /\ \E p \in HalfPlaces :
                                 /\ x.instruction = InstAt(design_fdl, p)
                                 /\ x.scope = design_fdl[p[1]].scope
                          /\ x.reason = (IF HasBegin(x.instruction)
                                         THEN "missing fdd-end tag"
                                         ELSE "missing fdd-begin tag")

\* more missing occurrences than the examples list holds, beside an
\* incomplete report of an instruction whose end marker is absent
C8_Witness_CappedExamples ==
    /\ pc = "implementation"
    /\ \E n \in 1..Len(fdl_errors) :
           /\ fdl_errors[n].type = "fdl_code_missing"
           /\ fdl_errors[n].missing_count > ExamplesCap
           /\ Len(fdl_errors[n].examples) = ExamplesCap
    /\ \E n \in 1..Len(fdl_errors) :
           /\ fdl_errors[n].type = "fdl_code_incomplete"
           /\ \E x \in Range(fdl_errors[n].examples) : x.reason = "missing fdd-end tag"

(***************************************************************************)
(* C9.                                                                     *)
(***************************************************************************)
\* the scope IDs of the markers of instruction i among the lines read
OwningScopes(i) ==
    {tree[k].begin[1].scope :
        k \in {j \in 1..Len(tree) : ReadAt(tree, j) /\ tree[j].begin # <<>>
                                        /\ tree[j].begin[1].inst = i}}
    \cup
    {tree[k].end[1].scope :
        k \in {j \in 1..Len(tree) : ReadAt(tree, j) /\ tree[j].end # <<>>
                                        /\ tree[j].end[1].inst = i}}

\* the instruction IDs the document marks complete in some scope
MarkedInDocument ==
    {design_text[k].inst[1] :
        k \in {j \in 1..Len(design_text) :
                  /\ design_text[j].kind = "step"
                  /\ design_text[j].mark \in CheckedMarks
                  /\ OwnerOf(design_text, j) # <<>>}}

CountedUntracked ==
    UNION {Range(untracked_errors[n].instructions) : n \in 1..Len(untracked_errors)}

CompleteInCode(i) == HasBegin(i) /\ HasEnd(i)

\* C9 as stated: an instruction ID is counted if and only if its record is
\* complete, one of its owning scope IDs contains the feature's slug, and the
\* document does not mark the ID complete.
C9_CountedIffScopeContainsSlug ==
    pc = "reverse" =>
        \A i \in Insts :
            i \in CountedUntracked
                <=> /\ CompleteInCode(i)
                    /\ FeatureSlug(feature_name) # <<>>
                    /\ \E sc \in OwningScopes(i) : SegsIn(FeatureSlug(feature_name)[1], sc)
                    /\ i \notin MarkedInDocument

\* C9 as amended: an instruction ID is counted if and only if its record is
\* complete, one of its owning scope IDs contains "-feature-<slug>-" for the
\* slug of the feature directory's name (the name with every "feature-" taken
\* out, for a name that starts with "feature-"), and the document does not
\* mark the ID complete; the report's count is the number of these IDs.  For
\* feature-subfeature-x the slug is subx: what is counted stands under a
\* scope of feature subx, and a scope of feature subfeature-x counts for
\* nothing.
C9_CountedIffScopeContainsFeatureSlug ==
    pc = "reverse" =>
        /\ \A i \in Insts :
               i \in CountedUntracked
                   <=> /\ CompleteInCode(i)
                       /\ FeatureSlug(feature_name) # <<>>
                       /\ \E sc \in OwningScopes(i) :
                              DashedSegsIn(<<"feature">> \o FeatureSlug(feature_name)[1], sc)
                       /\ i \notin MarkedInDocument
        /\ Len(untracked_errors) <= 1
        /\ \A n \in 1..Len(untracked_errors) :
               /\ untracked_errors[n].type = "fdl_untracked_implementation"
               /\ untracked_errors[n].count = Cardinality(CountedUntracked)
               /\ untracked_errors[n].count > 0
        /\ feature_name = FeatureSubfeatureX =>
               \A i \in CountedUntracked : ScopeSubxFlow \in OwningScopes(i)

\* an instruction counted for feature f1 whose begin marker stands under a
\* scope of another feature and whose end marker under a scope of f1, while
\* the document marks another instruction complete
C9_Witness_CountedThroughOneOwningScope ==
    /\ pc = "reverse"
    /\ feature_name = FeatureF1
    /\ \E i \in Insts :
           /\ i \in CountedUntracked
           /\ OwningScopes(i) = {ScopeF1Flow, ScopeF2Algo}
    /\ MarkedInDocument # {}

(***************************************************************************)
(* C10.                                                                    *)
(***************************************************************************)
ImplementedReports == ErrorsOfType(fdl_errors, "fdl_implemented_incomplete")

\* C10: when the status marker denotes IMPLEMENTED and an instruction that
\* design_fdl lists has no complete marker pair in code, validate_fdl_completion
\* returns an fdl_implemented_incomplete error with the missing and incomplete
\* counts; when every listed instruction has a complete pair it returns none.
C10_ImplementedStatusReconcilesCode ==
    (pc = "completion" /\ changes_text.status = <<StatusImplemented>>) =>
        /\ (MissingPlaces \cup HalfPlaces # {}) =>
               /\ Len(ImplementedReports) = 1
               /\ ImplementedReports[1].missing_count = Cardinality(MissingPlaces)
               /\ ImplementedReports[1].incomplete_count = Cardinality(HalfPlaces)
        /\ (MissingPlaces \cup HalfPlaces = {}) => ImplementedReports = <<>>

(***************************************************************************)
(* C2.                                                                     *)
(***************************************************************************)
\* the section codes of the document, as they stand in it
ObservedCodes == find_present_section_ids(artifact_text)

\* the codes among them that are required ones
ObservedRequiredCodes ==
    SelectSeq(ObservedCodes, LAMBDA c : \E k \in 1..Len(required_sections) : required_sections[k].id = c)

ContainsEveryRequired ==
    /\ required_sections # <<>>
    /\ \A k \in 1..Len(required_sections) : required_sections[k].id \in Range(ObservedCodes)

OrderErrorsOf(res) ==
    SelectSeq(res.errors, LAMBDA e : e.message = "Sections are not in required order")

\* C2 as stated: a document that holds every required section and whose
\* section codes stand in an order other than the canonical one gets the order
\* error, and its found_order is the observed order of the document's codes.
C2_OrderErrorOnAnyOtherOrder ==
    (pc = "generic returned" /\ ContainsEveryRequired
        /\ ObservedCodes # RequiredOrder(required_sections)) =>
        /\ Len(OrderErrorsOf(result)) = 1
        /\ OrderErrorsOf(result)[1].found_order = ObservedCodes

\* C2 as amended: a document that holds every required section and whose
\* required section codes (the codes of the document that are required ones,
\* in document order, repeats included) stand in an order other than the
\* canonical one gets one order error of type structure, and its found_order
\* is that observed order of the required codes; codes that are not required
\* ones are left out of the comparison and of found_order.
C2_OrderErrorOnOtherOrderOfRequiredCodes ==
    (pc = "generic returned" /\ ContainsEveryRequired) =>
        IF ObservedRequiredCodes # RequiredOrder(required_sections)
        THEN /\ Len(OrderErrorsOf(result)) = 1
             /\ OrderErrorsOf(result)[1].type = "structure"
             /\ OrderErrorsOf(result)[1].found_order = ObservedRequiredCodes
             /\ OrderErrorsOf(result)[1].required_order = RequiredOrder(required_sections)
        ELSE OrderErrorsOf(result) = <<>>

\* the three required sections, each once, in another order, and the error
C2_Witness_PermutedSections ==
    /\ pc = "generic returned"
    /\ Len(required_sections) = 3
    /\ Len(ObservedCodes) = 3
    /\ Range(ObservedCodes) = {"A", "B", "C"}
    /\ ObservedCodes # <<"A", "B", "C">>
    /\ Len(OrderErrorsOf(result)) = 1
    /\ OrderErrorsOf(result)[1].found_order = ObservedCodes

(***************************************************************************)
(* C1.                                                                     *)
(***************************************************************************)
\* the artifact's own issue list in the result the validator returned
OwnIssues ==
    CASE pc = "generic returned" -> result.missing_sections
      [] pc = "design returned" -> result.requirement_issues
      [] pc = "adr returned" -> result.adr_issues

Returned == pc \in {"generic returned", "design returned", "adr returned"}

\* the call ended in an exception and returned nothing
Raised == pc \in {"design raised", "adr raised"}

PassIffNothingReported ==
    /\ result.status \in {"PASS", "FAIL"}
    /\ result.status = "PASS" <=>
          (result.errors = <<>> /\ result.placeholder_hits = <<>> /\ OwnIssues = <<>>)

\* C1: for every input document each artifact validator returns a result, and
\* its status is PASS exactly when the errors, the placeholder hits and the
\* artifact's own issue list it returns (missing sections, ADR issues,
\* requirement issues) are all empty, and FAIL otherwise.
C1_PassIffNothingReported ==
    (Returned \/ Raised) => (Returned /\ PassIffNothingReported)

\* what holds of the code: validate_generic_sections returns PASS exactly when
\* it reports nothing, and the two validators of adr.py return nothing at all
GenericPassIffOthersRaise ==
    /\ Returned => (pc = "generic returned" /\ PassIffNothingReported)
    /\ Raised => result = Raises("NameError")

(***************************************************************************)
(* C3, C4.  The requirement blocks read off the document: a line belongs   *)
(* to the block of the nearest ID line at or above it.                     *)
(***************************************************************************)
\* the business model the validator works with: none when it loads no sibling
BusinessModel ==
    IF skip_fs_checks \/ business_text.err # <<>> THEN NoBusinessModel
    ELSE parse_business_model(business_text.text)

Capabilities == DOMAIN BusinessModel.capability_to_actors

IsIdLine(i) == artifact_text[i].id_label /\ artifact_text[i].req_ids # <<>>

BlockStarts == {i \in 1..Len(artifact_text) : IsIdLine(i)}

LinesOfBlock(i) ==
    {j \in i..Len(artifact_text) : \A i2 \in BlockStarts : i2 <= j => i2 <= i}

CapsOfBlock(i) == UNION {artifact_text[j].caps : j \in LinesOfBlock(i)}

ActorsOfBlock(i) == UNION {artifact_text[j].actors : j \in LinesOfBlock(i)}

OrphanedMessage == "Orphaned capabilities (not referenced in DESIGN.md requirements)"

DesignReturned == pc = "design returned"

\* validate_overall_design has run: it returned a result or raised
DesignDone == pc \in {"design returned", "design raised"}

\* the errors and the requirement issues of the result; a call that raised
\* returned none
ErrorsOfDesign == IF DesignReturned THEN result.errors ELSE <<>>

IssuesOfDesign == IF DesignReturned THEN result.requirement_issues ELSE <<>>

OrphanErrors == SelectSeq(ErrorsOfDesign, LAMBDA e : e.message = OrphanedMessage)

ListedOrphans == UNION {Range(OrphanErrors[k].ids) : k \in 1..Len(OrphanErrors)}

\* C3: a capability of the business model is listed in the orphaned
\* capabilities traceability error exactly when no requirement block
\* references it, whatever other requirement blocks there are.
C3_OrphanedIffUnreferenced ==
    DesignDone =>
        /\ \A c \in Capabilities :
              c \in ListedOrphans <=> (\A i \in BlockStarts : c \notin CapsOfBlock(i))
        /\ ListedOrphans \subseteq Capabilities
        /\ Len(OrphanErrors) <= 1
        /\ \A k \in 1..Len(OrphanErrors) : OrphanErrors[k].type = "traceability"

MatchMessage == "Actors must match actors of referenced capabilities"

MatchIssues(i) ==
    SelectSeq(IssuesOfDesign,
              LAMBDA e : e.message = MatchMessage /\ e.requirement = artifact_text[i].req_ids[1])

\* the union of the permitted actors of the capabilities a block references
PermittedFor(i) ==
    UNION {BusinessModel.capability_to_actors[c] : c \in CapsOfBlock(i) \cap Capabilities}

ListsBoth(i) ==
    /\ Len(MatchIssues(i)) = 1
    /\ MatchIssues(i)[1].actors = Sorted(ActorsOfBlock(i), ActorIds)
    /\ MatchIssues(i)[1].allowed = Sorted(PermittedFor(i), ActorIds)

\* C4: for a requirement block that references a capability, the actors
\* issue is reported exactly when its actors are not a subset of the union of
\* the permitted actors of the capabilities it references, the empty union
\* included, and the issue lists the actors and the allowed set.
C4_IssueIffNotSubset ==
    DesignDone =>
        \A i \in BlockStarts :
            CapsOfBlock(i) # {} =>
                IF ~(ActorsOfBlock(i) \subseteq PermittedFor(i))
                THEN ListsBoth(i)
                ELSE MatchIssues(i) = <<>>

(***************************************************************************)
(* C11.                                                                    *)
(***************************************************************************)
\* the instructions design_fdl lists whose completion flag is not set
UnflaggedPlaces ==
    {p \in Places(design_fdl) : design_fdl[p[1]].completed[p[2]] = ""}

PrematureReports == ErrorsOfType(fdl_errors, "premature_completion")

\* C11: when the status marker denotes COMPLETED, validate_fdl_completion
\* returns a premature_completion error exactly when design_fdl lists, for some
\* scope, an instruction whose completion flag is not set; the error counts
\* those instructions, and the markers in code have no part in it.
C11_PrematureIffUnflaggedInstruction ==
    (pc = "completion" /\ changes_text.status = <<StatusCompleted>>) =>
        IF UnflaggedPlaces # {}
        THEN /\ Len(fdl_errors) = 1
             /\ Len(PrematureReports) = 1
             /\ PrematureReports[1].uncompleted_count = Cardinality(UnflaggedPlaces)
             /\ \A k \in 1..Len(PrematureReports[1].examples) :
                   \E p \in UnflaggedPlaces :
                       /\ PrematureReports[1].examples[k].scope = design_fdl[p[1]].scope
                       /\ PrematureReports[1].examples[k].instruction = InstAt(design_fdl, p)
        ELSE fdl_errors = <<>>

\* the only instruction without its flag stands in the second scope and has a
\* complete marker pair in code: the error is returned all the same
C11_Witness_UnflaggedThoughCompleteInCode ==
    /\ pc = "completion"
    /\ changes_text.status = <<StatusCompleted>>
    /\ Len(design_fdl) = 2
    /\ UnflaggedPlaces = {<<2, 1>>}
    /\ InstAt(design_fdl, <<2, 1>>) = "inst-a"
    /\ CompleteInCode("inst-a")
    /\ Len(PrematureReports) = 1
    /\ PrematureReports[1].uncompleted_count = 1

(***************************************************************************)
(* C12.                                                                    *)
(***************************************************************************)
LinksOfKind(k, kind) ==
    {n \in 1..Len(artifact_text[k].links) : artifact_text[k].links[n].kind = kind}

AbsoluteErrorsAt(k) ==
    SelectSeq(result.errors,
              LAMBDA e : e.type = "link_format"
                            /\ e.message = "Absolute link targets are not allowed" /\ e.line = k)

TargetErrorsAt(k) ==
    SelectSeq(result.errors, LAMBDA e : e.type = "link_target" /\ e.line = k)

\* C12: for every document and every setting of skip_fs_checks, each link
\* whose target begins with "/" produces one link_format error, absolute link
\* targets not allowed, with the number of its line, whether the target exists
\* or not, and no link_target error is produced for that link.
C12_AbsoluteLinkAlwaysReported ==
    pc = "common returned" =>
        \A k \in 1..Len(artifact_text) :
            /\ Len(AbsoluteErrorsAt(k)) = Cardinality(LinksOfKind(k, "absolute"))
            /\ Len(TargetErrorsAt(k))
                  <= Cardinality({n \in LinksOfKind(k, "relative") :
                                     ~artifact_text[k].links[n].exists})

(***************************************************************************)
(* C13.  The ADRs read off the document: an ADR is a heading line, and its *)
(* body the lines after it up to the next heading line or the end.         *)
(***************************************************************************)
AdrHeadings == {i \in 1..Len(artifact_text) : artifact_text[i].adr_heading # <<>>}

RefAt(i) == artifact_text[i].adr_heading[1].ref

BodyOfAdr(i) ==
    {j \in (i + 1)..Len(artifact_text) : \A i2 \in AdrHeadings : i2 <= j => i2 <= i}

LacksSection(i, k) == \A j \in BodyOfAdr(i) : AdrSections[k] \notin artifact_text[j].sections

\* validate_adr has run: it returned a result or raised
AdrDone == pc \in {"adr returned", "adr raised"}

\* the per-ADR issues of the result; a call that raised returned none
IssuesOfAdr == IF pc = "adr returned" THEN result.adr_issues ELSE <<>>

MissingSectionIssues(ref, k) ==
    SelectSeq(IssuesOfAdr,
              LAMBDA e : e.adr = ref /\ e.message = MissingSectionMessage[k])

\* C13: every ADR whose body lacks one of the five section headings gets
\* exactly one issue that names the section and carries the ADR's reference, an
\* ADR whose body holds the heading gets none, whatever the other ADRs of the
\* document hold, and every ADR, the last one too, is checked once: for a
\* reference and a section, the issues are as many as the ADRs of that
\* reference whose own body lacks the section.
C13_OneIssuePerAdrAndMissingSection ==
    AdrDone =>
        /\ \A i \in AdrHeadings : \A k \in 1..Len(AdrSections) :
              Len(MissingSectionIssues(RefAt(i), k))
                  = Cardinality({i2 \in AdrHeadings : RefAt(i2) = RefAt(i) /\ LacksSection(i2, k)})
        /\ \A n \in 1..Len(IssuesOfAdr) :
              \E i \in AdrHeadings : IssuesOfAdr[n].adr = RefAt(i)

(***************************************************************************)
(* C14.                                                                    *)
(***************************************************************************)
\* the heading lines of the document in order, and their references
HeadingLines ==
    SelectSeq([i \in 1..Len(artifact_text) |-> i], LAMBDA i : i \in AdrHeadings)

FirstOfItsRef(i) == \A i2 \in AdrHeadings : RefAt(i2) = RefAt(i) => i <= i2

\* the references in the order of their first headings
RefsInOrder ==
    LET firsts == SelectSeq(HeadingLines, FirstOfItsRef)
    IN  [k \in 1..Len(firsts) |-> RefAt(firsts[k])]

\* C14: the entries parse_adr_index returns are one per reference of the
\* document, no two of the same reference also when a heading stands more than
\* once, in document order; an entry without date or status is returned like
\* any other and the entries after it too.
C14_OneEntryPerReference ==
    pc = "index returned" =>
        /\ \A a, b \in 1..Len(result.adrs) : result.adrs[a].ref = result.adrs[b].ref => a = b
        /\ [k \in 1..Len(result.adrs) |-> result.adrs[k].ref] = RefsInOrder

\* what parse_adr_index returns: one entry per heading line, in document order
OneEntryPerHeading ==
    pc = "index returned" =>
        [k \in 1..Len(result.adrs) |-> result.adrs[k].ref]
            = [k \in 1..Len(HeadingLines) |-> RefAt(HeadingLines[k])]

(***************************************************************************)
(* C20.                                                                    *)
(***************************************************************************)
\* the lines after heading i and before the next heading line, at most
\* LookaheadWindow - 1 of them
LinesBeforeNextHeading(i) ==
    {j \in (i + 1)..Min(i + LookaheadWindow - 1, Len(artifact_text)) :
        \A j2 \in (i + 1)..j : ~artifact_text[j2].h2}

FoundOn(lines, field, value) ==
    value = <<>> \/ \E j \in lines : artifact_text[j][field] = value

\* C20: the date, the status and the linked identifier of every entry come
\* from a line after its heading and before the next heading line, inside the
\* lookahead window; nothing on the next heading line or after it is
\* attributed to the entry.
C20_MetadataOnlyBeforeNextHeading ==
    pc = "index returned" =>
        \A k \in 1..Len(result.adrs) :
            LET own == LinesBeforeNextHeading(HeadingLines[k])
            IN  /\ FoundOn(own, "date", result.adrs[k].date)
                /\ FoundOn(own, "status", result.adrs[k].status)
                /\ FoundOn(own, "adr_ids", result.adrs[k].id)

\* what the code does: the line that ends the look-ahead is read as well
MetadataUpToNextHeading ==
    pc = "index returned" =>
        \A k \in 1..Len(result.adrs) :
            LET i == HeadingLines[k]
                own == LinesBeforeNextHeading(i)
                upto == own \cup {j \in (i + 1)..Min(i + LookaheadWindow - 1, Len(artifact_text)) :
                                     j - 1 \in own \cup {i}}
            IN  /\ FoundOn(upto, "date", result.adrs[k].date)
                /\ FoundOn(upto, "status", result.adrs[k].status)
                /\ FoundOn(upto, "adr_ids", result.adrs[k].id)

(***************************************************************************)
(* C15.                                                                    *)
(***************************************************************************)
CheckedBody == SectionBody(artifact_text, result.section_letter)

FenceLines ==
    SelectSeq([i \in 1..Len(CheckedBody) |-> i], LAMBDA i : CheckedBody[i].fence)

\* the fence lines that open a region: the first, the third, ... fence line
OpeningLines ==
    LET odd == SelectSeq([k \in 1..Len(FenceLines) |-> k], LAMBDA k : k % 2 = 1)
    IN  [n \in 1..Len(odd) |-> FenceLines[odd[n]]]

\* the lines strictly inside a fenced region
InsideFence(i) ==
    /\ ~CheckedBody[i].fence
    /\ Cardinality({k \in 1..Len(FenceLines) : FenceLines[k] < i}) % 2 = 1

ErrorLines(message) ==
    LET hits == SelectSeq(result.errors, LAMBDA e : e.message = message)
    IN  [n \in 1..Len(hits) |-> hits[n].line]

\* C15: the 'Code blocks are not allowed' errors of a section body are one per
\* fenced region, at the region's opening line, none at a closing fence; and
\* no line inside a fenced region gets a keyword error.
C15_OneErrorPerFencedRegion ==
    pc = "section checked" =>
        /\ ErrorLines(CodeBlockMessage) = OpeningLines
        /\ \A i \in 1..Len(CheckedBody) :
               InsideFence(i) => i \notin Range(ErrorLines(WhenMessage))

\* what the code does: one error per fence line, opening or closing
OneErrorPerFenceLine ==
    pc = "section checked" =>
        /\ ErrorLines(CodeBlockMessage) = FenceLines
        /\ \A i \in 1..Len(CheckedBody) :
               InsideFence(i) => i \notin Range(ErrorLines(WhenMessage))

(***************************************************************************)
(* C19.                                                                    *)
(***************************************************************************)
WhenOutsideFence(i) ==
    /\ CheckedBody[i].when
    /\ ~CheckedBody[i].fence
    /\ ~InsideFence(i)

WhenErrorsAt(i) ==
    SelectSeq(result.errors,
              LAMBDA e : e.message = WhenMessage /\ e.line = i
                           /\ e.section = result.section_letter)

\* C19: every **WHEN** outside a code fence in a section other than Section D
\* gets an 'fdl' error with the section letter and the line; in Section D no
\* **WHEN** gets one.
C19_WhenFlaggedOutsideSectionD ==
    pc = "section checked" =>
        \A i \in 1..Len(CheckedBody) :
            /\ (WhenOutsideFence(i) /\ result.section_letter # "D")
                   => Len(WhenErrorsAt(i)) >= 1
            /\ result.section_letter = "D" => i \notin Range(ErrorLines(WhenMessage))

\* what the code does: the keyword is flagged in Sections B and C only
WhenFlaggedInSectionsBAndC ==
    pc = "section checked" =>
        \A i \in 1..Len(CheckedBody) :
            Len(WhenErrorsAt(i)) =
                IF WhenOutsideFence(i) /\ result.section_letter \in {"B", "C"} THEN 1 ELSE 0

(***************************************************************************)
(* C16.                                                                    *)
(***************************************************************************)
\* the lines of the artifact that hold a placeholder token
PlaceholderLines == {k \in 1..Len(artifact_text) : artifact_text[k].placeholder}

\* C16: when no required section was parsed, validate_generic_sections
\* returns a whole result: status FAIL, required_section_count 0, no missing
\* sections, one placeholder hit per line of the document that holds a token,
\* and exactly one error, of type 'requirements'.
C16_UnparsedRequirementsReturnFail ==
    (pc = "generic returned" /\ required_sections = <<>>) =>
        /\ DOMAIN result = {"required_section_count", "missing_sections",
                            "placeholder_hits", "status", "errors"}
        /\ result.status = "FAIL"
        /\ result.required_section_count = 0
        /\ result.missing_sections = <<>>
        /\ {h.line : h \in Range(result.placeholder_hits)} = PlaceholderLines
        /\ Len(result.placeholder_hits) = Cardinality(PlaceholderLines)
        /\ Len(result.errors) = 1
        /\ result.errors[1].type = "requirements"

\* a document with sections in order and a placeholder, and nothing parsed
\* from the requirements file
C16_Witness_UnparsedWithPlaceholder ==
    /\ pc = "generic returned"
    /\ required_sections = <<>>
    /\ find_present_section_ids(artifact_text) = <<"A", "B">>
    /\ Len(result.placeholder_hits) = 1
    /\ result.status = "FAIL"

(***************************************************************************)
(* C17.  The kinds of reference of a requirement block, the IDs of each    *)
(* kind its source document declares, and the issue that names the        *)
(* unknown ones.                                                           *)
(***************************************************************************)
Kinds == {"actor", "capability", "use case", "decision record"}

\* the decision index the validator works with: empty when it loads none
DecisionIds ==
    IF skip_fs_checks \/ sibling_text.err # <<>> THEN {}
    ELSE AdrIdsOf(parse_adr_index(sibling_text.text).adrs)

Declared(kind) ==
    CASE kind = "actor" -> BusinessModel.actor_ids
      [] kind = "capability" -> Capabilities
      [] kind = "use case" -> BusinessModel.usecase_ids
      [] kind = "decision record" -> DecisionIds

FieldOf(kind) ==
    CASE kind = "actor" -> "actors"
      [] kind = "capability" -> "caps"
      [] kind = "use case" -> "usecases"
      [] kind = "decision record" -> "adr_ids"

UnknownMessage(kind) ==
    CASE kind = "actor" -> "Unknown actor IDs"
      [] kind = "capability" -> "Unknown capability IDs"
      [] kind = "use case" -> "Unknown use case IDs"
      [] kind = "decision record" -> "Unknown ADR references"

Ascending(kind) ==
    CASE kind = "actor" -> ActorIds
      [] kind = "capability" -> CapabilityIds
      [] kind = "use case" -> UsecaseIds
      [] kind = "decision record" -> AdrIds

\* the IDs of a kind the block at line i references and its source lacks
Offending(i, kind) ==
    UNION {artifact_text[j][FieldOf(kind)] : j \in LinesOfBlock(i)} \ Declared(kind)

UnknownIssues(i, kind) ==
    SelectSeq(IssuesOfDesign,
              LAMBDA e : e.message = UnknownMessage(kind)
                           /\ e.requirement = artifact_text[i].req_ids[1])

ListsOffending(i, kind) ==
    /\ Len(UnknownIssues(i, kind)) = 1
    /\ UnknownIssues(i, kind)[1].ids = Sorted(Offending(i, kind), Ascending(kind))

\* C17: a block that references an ID its kind's source document lacks gets
\* the 'Unknown' issue of the kind listing the offending IDs, also when the
\* loaded source declares no ID of the kind.
C17_UnknownIdsReported ==
    DesignDone =>
        \A i \in BlockStarts : \A kind \in Kinds :
            Offending(i, kind) # {} => ListsOffending(i, kind)

(***************************************************************************)
(* C18.  The capability section as the document shows it: the lines after  *)
(* a capability heading up to the next line that starts a section.  A line *)
(* of the section that holds a capability ID is an occurrence of the first *)
(* capability ID on it.                                                    *)
(***************************************************************************)
SectionMarks(j) ==
    {h \in 1..j : artifact_text[h].cap_heading \/ artifact_text[h].h2}

InCapabilitySection(j) ==
    /\ SectionMarks(j) # {}
    /\ MaxOf(SectionMarks(j)) < j
    /\ artifact_text[MaxOf(SectionMarks(j))].cap_heading

CapabilityOccurrences ==
    {j \in 1..Len(artifact_text) : InCapabilitySection(j) /\ artifact_text[j].caps # <<>>}

\* the lines from the occurrence at line o up to the next occurrence
LinesOfOccurrence(o) ==
    {j \in o..Len(artifact_text) :
        /\ InCapabilitySection(j)
        /\ \A o2 \in CapabilityOccurrences : o2 <= j => o2 <= o}

OccurrencesOf(c) == {o \in CapabilityOccurrences : artifact_text[o].caps[1] = c}

ActorsOnLines(lines) == UNION {artifact_text[j].actors : j \in lines}

BusinessReturned == pc = "business returned"

\* C18: the set returned for a capability ID holds all actor IDs on the lines
\* of the capability section from an occurrence of the ID up to the next
\* occurrence of a capability ID; lines outside the section add to no set;
\* the actor and use case sets are those of the whole document.
C18_PermittedActorsOfCapability ==
    BusinessReturned =>
        /\ DOMAIN result.capability_to_actors
               = {artifact_text[o].caps[1] : o \in CapabilityOccurrences}
        /\ \A c \in DOMAIN result.capability_to_actors :
               result.capability_to_actors[c]
                   = UNION {ActorsOnLines(LinesOfOccurrence(o)) : o \in OccurrencesOf(c)}
        /\ result.actor_ids = ActorsOnLines(1..Len(artifact_text))
        /\ result.usecase_ids = UNION {artifact_text[j].usecases : j \in 1..Len(artifact_text)}

\* what the code does: a later occurrence of the ID empties the set, so the
\* set holds the actors that follow the last occurrence
PermittedActorsFromLastOccurrence ==
    BusinessReturned =>
        /\ DOMAIN result.capability_to_actors
               = {artifact_text[o].caps[1] : o \in CapabilityOccurrences}
        /\ \A c \in DOMAIN result.capability_to_actors :
               result.capability_to_actors[c]
                   = ActorsOnLines(LinesOfOccurrence(MaxOf(OccurrencesOf(c))))
        /\ result.actor_ids = ActorsOnLines(1..Len(artifact_text))
        /\ result.usecase_ids = UNION {artifact_text[j].usecases : j \in 1..Len(artifact_text)}

(***************************************************************************)
(* C21.                                                                    *)
(***************************************************************************)
\* the required codes the document holds, in the canonical order
CanonicalAmongObserved ==
    SelectSeq(RequiredOrder(required_sections), LAMBDA c : c \in Range(ObservedCodes))

\* C21: a result with a missing section also holds the order error, even when
\* the required sections the document has stand in canonical relative order;
\* and there is no order error exactly when the document's required codes, in
\* document order with repeats, are the whole canonical list.
C21_MissingSectionBringsOrderError ==
    pc = "generic returned" =>
        /\ result.missing_sections # <<>> => Len(OrderErrorsOf(result)) = 1
        /\ OrderErrorsOf(result) = <<>>
               <=> ObservedRequiredCodes = RequiredOrder(required_sections)

\* three required sections, the document holds the first and the third in
\* that order: the second is missing and the order error is there
C21_Witness_MissingButInRelativeOrder ==
    /\ pc = "generic returned"
    /\ Len(required_sections) = 3
    /\ ObservedRequiredCodes = <<"A", "C">>
    /\ ObservedRequiredCodes = CanonicalAmongObserved
    /\ Len(result.missing_sections) = 1
    /\ result.missing_sections[1].id = "B"
    /\ Len(OrderErrorsOf(result)) = 1
    /\ OrderErrorsOf(result)[1].found_order = <<"A", "C">>

(***************************************************************************)
(* C22.                                                                    *)
(***************************************************************************)
\* the scopes of the begin markers and of the end markers of instruction i
\* among the lines read
BeginScopes(i) ==
    {tree[k].begin[1].scope :
        k \in {j \in 1..Len(tree) : ReadAt(tree, j) /\ tree[j].begin # <<>>
                                        /\ tree[j].begin[1].inst = i}}

EndScopes(i) ==
    {tree[k].end[1].scope :
        k \in {j \in 1..Len(tree) : ReadAt(tree, j) /\ tree[j].end # <<>>
                                        /\ tree[j].end[1].inst = i}}

RecordsOf(i) == {k \in 1..Len(inst_tags) : inst_tags[k].inst = i}

NoDuplicateScope ==
    \A k \in 1..Len(inst_tags) : \A s \in Range(inst_tags[k].scopes) :
        Count(inst_tags[k].scopes, s) = 1

\* a begin under one scope and an end under another: one complete record
\* that lists both scopes once
PairedAcrossScopes ==
    (pc = "returned" /\ root_exists) =>
        \A i \in Insts : \A s1 \in BeginScopes(i) : \A s2 \in EndScopes(i) :
            /\ Cardinality(RecordsOf(i)) = 1
            /\ \A k \in RecordsOf(i) :
                  /\ inst_tags[k].complete
                  /\ Count(inst_tags[k].scopes, s1) = 1
                  /\ Count(inst_tags[k].scopes, s2) = 1
                  /\ Range(inst_tags[k].scopes) = BeginScopes(i) \cup EndScopes(i)

\* a step of the scan keeps the records, never clears a flag and only
\* appends to a scopes list
FlagsOnlyRise ==
    /\ Len(inst_tags') >= Len(inst_tags)
    /\ \A k \in 1..Len(inst_tags) :
          /\ inst_tags'[k].inst = inst_tags[k].inst
          /\ inst_tags[k].has_begin => inst_tags'[k].has_begin
          /\ inst_tags[k].has_end => inst_tags'[k].has_end
          /\ Len(inst_tags'[k].scopes) >= Len(inst_tags[k].scopes)
          /\ SubSeq(inst_tags'[k].scopes, 1, Len(inst_tags[k].scopes)) = inst_tags[k].scopes

\* C22: the records are keyed by the instruction ID alone: a begin marker of
\* an instruction under one scope and an end marker of it under another give
\* one complete record that lists both scopes once each; during the scan
\* has_begin and has_end only change from false to true, and no scopes list
\* ever holds a scope twice.
C22_RecordsKeyedByInstructionAlone ==
    /\ [](NoDuplicateScope /\ PairedAcrossScopes)
    /\ [][FlagsOnlyRise]_vars

\* instruction inst-a begins under the flow scope only and ends under the
\* algorithm scope only, and its record is complete with the two scopes
C22_Witness_BeginAndEndUnderTwoScopes ==
    /\ pc = "returned"
    /\ BeginScopes("inst-a") = {ScopeF1Flow}
    /\ EndScopes("inst-a") = {ScopeF2Algo}
    /\ \E k \in RecordsOf("inst-a") :
          /\ inst_tags[k].complete
          /\ inst_tags[k].scopes = <<ScopeF1Flow, ScopeF2Algo>>

(***************************************************************************)
(* C23.                                                                    *)
(***************************************************************************)
\* the instruction IDs Design->Code lists as missing or incomplete
ListedByDesignToCode ==
    UNION {{fdl_errors[n].examples[k].instruction : k \in 1..Len(fdl_errors[n].examples)} :
              n \in {n2 \in 1..Len(fdl_errors) :
                        fdl_errors[n2].type \in {"fdl_code_missing", "fdl_code_incomplete"}}}

\* C23: on one feature document and one source tree the two reconciliations
\* never report the same instruction: none that Design->Code lists as missing
\* or incomplete is listed as untracked by Code->Design, and none that
\* Code->Design reports is marked complete in a scope of the document.
C23_ReconciliationsReportDisjointInstructions ==
    pc = "reconciled" =>
        /\ ListedByDesignToCode \cap CountedUntracked = {}
        /\ CountedUntracked \cap MarkedInDocument = {}

\* an instruction the document marks has half a pair in the code and another,
\* which it does not mark, the whole pair: each reconciliation reports its own
C23_Witness_EachReportsItsOwn ==
    /\ pc = "reconciled"
    /\ ListedByDesignToCode # {}
    /\ CountedUntracked # {}
    /\ \E i \in ListedByDesignToCode : HasBegin(i) \/ HasEnd(i)

(***************************************************************************)
(* C24.                                                                    *)
(***************************************************************************)
\* the step lines of the document that stand under a scope and are unchecked
UncheckedSteps ==
    {j \in 1..Len(design_text) :
        /\ design_text[j].kind = "step"
        /\ design_text[j].mark \notin CheckedMarks
        /\ OwnerOf(design_text, j) # <<>>}

\* C24: validate_fdl_completion on the design_fdl extracted from a feature
\* document returns no error, whatever the status of the change log: the
\* extractor appends to instructions and completed together, the two lists of
\* every scope have the same length, and premature_completion is not reached.
C24_NoCompletionErrorThroughExtractor ==
    /\ pc \in {"extracted", "completion"} =>
           \A k \in 1..Len(design_fdl) :
               /\ Len(design_fdl[k].instructions) = Len(design_fdl[k].completed)
               /\ \A n \in 1..Len(design_fdl[k].completed) : Truthy(design_fdl[k].completed[n])
    /\ pc = "completion" => fdl_errors = <<>>

\* a change log with the COMPLETED status and a document with a checked and
\* an unchecked step under its scope: no error
C24_Witness_CompletedWithUncheckedStep ==
    /\ pc = "completion"
    /\ changes_text.status = <<StatusCompleted>>
    /\ UncheckedSteps # {}
    /\ Len(design_fdl) = 1
    /\ Len(design_fdl[1].instructions) >= 1
    /\ fdl_errors = <<>>

====
